---- MODULE Spec2Model ----
(***************************************************************************)
(* The lpp interpreter (jdaroesti/lenguaje-de-programacion-platzi): the    *)
(* character-at-a-time Lexer of lpp/lexer.py and the Pratt Parser of       *)
(* lpp/parser.py, as state machines.                                       *)
(*                                                                         *)
(* A source text is a sequence of one-character strings.  A token literal  *)
(* is the slice of the source it was read from, again a sequence of        *)
(* characters.  Python's 0-based indices are kept: source[i] of the code   *)
(* is source[i + 1] here.                                                  *)
(***************************************************************************)
EXTENDS Integers, Sequences, FiniteSets, TLC

VARIABLES
    source,     \* Lexer._source
    lexer,      \* the test driver's Lexer: _position, _read_position, _character
    tokens,     \* the tokens next_token has returned to the test driver
    parser,     \* Parser._lexer, _current_token, _peek_token, _errors
    stack,      \* the parser's call stack: one frame per active parse function
    ret,        \* the value the parse function that returned last handed back
    status,     \* "lexing", "parsing", "done" (parse_program returned), "raised",
                \* "evaluated" (evaluate returned or raised); in the REPL also
                \* "prompt", "exited" and "crashed"
    input,      \* the lexemes the source text was written from
    evaluation, \* what evaluate returned, with the heap and trace it left
    repl        \* start_repl's lines scanned, last line read and output

vars ==
    <<source, lexer, tokens, parser, stack, ret, status, input, evaluation, repl>>

-----------------------------------------------------------------------------
(* Bounds of the model *)

\* longest source text of letters and digits, in characters, the lexer is run on
MaxSrcLen == 5
\* longest source text of operators, blanks and operands the lexer is run on
MaxOperatorLen == 4
\* longest source text with illegal characters the lexer is run on
MaxIllegalLen == 3
\* how far past the end of the source a lexer's _read_position is driven
MaxEOFReads == 4
\* longest arbitrary token sequence the parser is run on
MaxTokens == 3
\* most binary operators in a well-formed expression the parser is run on
MaxOps == 2
\* most arguments in a call the parser is run on, most parameters and
\* arguments of a call the evaluator is run on
MaxArgs == 3
\* largest absolute value of the integers the evaluator is run on
MaxInt == 2
\* most statements in a program or block the evaluator is run on
MaxStatements == 3
\* most lines the REPL scans before only `salir()` is entered
MaxLines == 2

-----------------------------------------------------------------------------
(* lpp/token.py *)

Token(token_type, literal) == [token_type |-> token_type, literal |-> literal]

\* the keyword table of lookup_token_type, literal by literal
keywords ==
    {<< <<"f","a","l","s","o">>, "FALSE" >>,
     << <<"p","r","o","c","e","d","i","m","i","e","n","t","o">>, "FUNCTION" >>,
     << <<"r","e","g","r","e","s","a">>, "RETURN" >>,
     << <<"s","i">>, "IF" >>,
     << <<"s","i","_","n","o">>, "ELSE" >>,
     << <<"v","a","r","i","a","b","l","e">>, "LET" >>,
     << <<"v","e","r","d","a","d","e","r","o">>, "TRUE" >>}

lookup_token_type_prefix(literal) ==
    \* a keyword is recognised as soon as the literal starts with it
    IF \E k \in keywords : Len(k[1]) <= Len(literal)
                           /\ SubSeq(literal, 1, Len(k[1])) = k[1]
    THEN (CHOOSE k \in keywords : Len(k[1]) <= Len(literal)
                                  /\ SubSeq(literal, 1, Len(k[1])) = k[1])[2]
    ELSE "IDENT"

lookup_token_type(literal) ==
    IF \E k \in keywords : k[1] = literal
    THEN (CHOOSE k \in keywords : k[1] = literal)[2]
    ELSE "IDENT"

-----------------------------------------------------------------------------
(* lpp/lexer.py *)

\* the character class of _is_letter: [a-záéíóúA-ZÁÉÍÓÚñÑ_]
Letters ==
    {"a","b","c","d","e","f","g","h","i","j","k","l","m","n","o","p","q","r",
     "s","t","u","v","w","x","y","z",
     "A","B","C","D","E","F","G","H","I","J","K","L","M","N","O","P","Q","R",
     "S","T","U","V","W","X","Y","Z",
     "á","é","í","ó","ú","Á","É","Í","Ó","Ú","ñ","Ñ","_"}

\* the character class \d of _is_number, on the digits the model writes
Digits == {"0","1","2","3","4","5","6","7","8","9"}

\* the character class \s of _skip_whitespace, on the blanks the model writes
Whitespace == {" ", "\t", "\n", "\r", "\f"}

_is_letter(character) == character \in Letters

_is_number(character) == character \in Digits

\* the one element of a set of one.  The({F(v) : v \in {e}}) is F(e) with e
\* evaluated once, as the code evaluates what it keeps in a local
The(S) == CHOOSE x \in S : TRUE

\* Python's source[i], i 0-based and in range
CharAt(i) == source[i + 1]

\* Python's source[a:b], which clamps both ends to the text
Slice(a, b) ==
    LET lo == IF a > Len(source) THEN Len(source) ELSE a
        hi == IF b > Len(source) THEN Len(source) ELSE b
    IN  IF hi <= lo THEN <<>> ELSE SubSeq(source, lo + 1, hi)

_peek_character(l) ==
    IF l.read_position >= Len(source) THEN "" ELSE CharAt(l.read_position)

_read_character_wraps(l) ==
    \* at the end of the text the read position starts over
    IF l.read_position >= Len(source)
    THEN [position |-> l.read_position, read_position |-> 0, character |-> ""]
    ELSE [position |-> l.read_position,
          read_position |-> l.read_position + 1,
          character |-> CharAt(l.read_position)]

_read_character_stale(l) ==
    \* the character kept is the one at the position left behind
    [position |-> l.read_position,
     read_position |-> l.read_position + 1,
     character |-> IF l.position >= Len(source) THEN "" ELSE CharAt(l.position)]

_read_character(l) ==
    [position |-> l.read_position,
     read_position |-> l.read_position + 1,
     character |-> IF l.read_position >= Len(source)
                   THEN ""
                   ELSE CharAt(l.read_position)]

\* Lexer.__init__
NewLexer ==
    _read_character([position |-> 0, read_position |-> 0, character |-> ""])

RECURSIVE _skip_whitespace(_)
_skip_whitespace(l) ==
    IF l.character \in Whitespace
    THEN The({_skip_whitespace(next) : next \in {_read_character(l)}})
    ELSE l

_make_two_character_token_one(l, token_type) ==
    \* the second character is put in the literal but not consumed
    [lexer |-> l,
     token |-> Token(token_type, <<l.character, _peek_character(l)>>)]

TwoCharacterToken(prefix, l2, token_type) ==
    [lexer |-> l2, token |-> Token(token_type, <<prefix, l2.character>>)]

_make_two_character_token(l, token_type) ==
    The({TwoCharacterToken(l.character, l2, token_type) : l2 \in {_read_character(l)}})

RECURSIVE IdentifierLoop(_, _)
IdentifierLoop(l, is_first_letter) ==
    IF _is_letter(l.character)
       \/ (~is_first_letter /\ _is_number(l.character))
    THEN The({IdentifierLoop(next, FALSE) : next \in {_read_character(l)}})
    ELSE l

\* the literal without the first character of the run
ReadRunShort(initial_position, l2) ==
    [lexer |-> l2, literal |-> Slice(initial_position + 1, l2.position)]

\* self._source[initial_position:self._position] once the loop has run
ReadRun(initial_position, l2) ==
    [lexer |-> l2, literal |-> Slice(initial_position, l2.position)]

_read_identifier(l) ==
    The({ReadRun(l.position, l2) : l2 \in {IdentifierLoop(l, TRUE)}})

RECURSIVE NumberLoop(_)
NumberLoop(l) ==
    IF _is_number(l.character)
    THEN The({NumberLoop(next) : next \in {_read_character(l)}})
    ELSE l

_read_number(l) == The({ReadRun(l.position, l2) : l2 \in {NumberLoop(l)}})

\* the one-character tokens of next_token, in the order of its elif chain
OneCharacter(c) ==
    CASE c = "+" -> "PLUS"
      [] c = ""  -> "EOF"
      [] c = "(" -> "LPAREN"
      [] c = ")" -> "RPAREN"
      [] c = "{" -> "LBRACE"
      [] c = "}" -> "RBRACE"
      [] c = "," -> "COMMA"
      [] c = ";" -> "SEMICOLON"
      [] c = "-" -> "MINUS"
      [] c = "/" -> "DIVISION"
      [] c = "*" -> "MULTIPLICATION"
      [] c = "<" -> "LT"
      [] c = ">" -> "GT"
      [] OTHER   -> "ILLEGAL"

OneCharacterTokenStays(l, token_type) ==
    \* the character is not consumed
    [lexer |-> l,
     token |-> Token(token_type, IF l.character = "" THEN <<>> ELSE <<l.character>>)]

\* next_token, lines 70-72: the token is built on the current character,
\* which is then consumed
OneCharacterToken(l, token_type) ==
    [lexer |-> _read_character(l),
     token |-> Token(token_type, IF l.character = "" THEN <<>> ELSE <<l.character>>)]

TwoCharacterTokenRead(r) == [lexer |-> _read_character(r.lexer), token |-> r.token]

\* next_token, lines 59-62
IdentifierToken(r) ==
    [lexer |-> r.lexer, token |-> Token(lookup_token_type(r.literal), r.literal)]

\* next_token, lines 64-66
NumberToken(r) == [lexer |-> r.lexer, token |-> Token("INT", r.literal)]

\* next_token, lines 22-72: the elif chain on the current character
TokenAt(l) ==
    IF l.character = "=" THEN
        IF _peek_character(l) = "="
        THEN The({TwoCharacterTokenRead(r) : r \in {_make_two_character_token(l, "EQ")}})
        ELSE OneCharacterToken(l, "ASSIGN")
    ELSE IF l.character = "!" THEN
        IF _peek_character(l) = "="
        THEN The({TwoCharacterTokenRead(r) : r \in {_make_two_character_token(l, "NOT_EQ")}})
        ELSE OneCharacterToken(l, "NEGATION")
    ELSE IF l.character \in {"+", "", "(", ")", "{", "}", ",", ";", "-", "/", "*", "<", ">"} THEN
        OneCharacterToken(l, OneCharacter(l.character))
    ELSE IF _is_letter(l.character) THEN
        The({IdentifierToken(r) : r \in {_read_identifier(l)}})
    ELSE IF _is_number(l.character) THEN
        The({NumberToken(r) : r \in {_read_number(l)}})
    ELSE OneCharacterToken(l, "ILLEGAL")

\* Lexer.next_token: the lexer after the call and the token returned
next_token(l) == The({TokenAt(at) : at \in {_skip_whitespace(l)}})

-----------------------------------------------------------------------------
(* The lexer driven as tests/lexer_test.py drives it: construct a Lexer on  *)
(* a source text, then call next_token again and again.                     *)

\* all sequences over S of length at most n
RECURSIVE SeqsUpTo(_, _)
SeqsUpTo(S, n) ==
    IF n = 0 THEN {<<>>}
    ELSE LET shorter == SeqsUpTo(S, n - 1)
         IN  shorter \cup {Append(s, c) : s \in {t \in shorter : Len(t) = n - 1}, c \in S}

\* operators, blanks, one letter, one digit, one illegal character
OperatorAlphabet == {"=", "!", "+", " ", "a", "1", "@"}
\* the characters of `si`, `si_no`, `sino`, `si2`
IdentifierAlphabet == {"s", "i", "_", "n", "o", "2"}

\* the characters of test_illegal, a quote, a blank, a letter
IllegalAlphabet == {"@", "¡", "¿", "\"", " ", "a"}

LexerSources ==
    SeqsUpTo(OperatorAlphabet, MaxOperatorLen)
    \cup SeqsUpTo(IdentifierAlphabet, MaxSrcLen)
    \cup SeqsUpTo(IllegalAlphabet, MaxIllegalLen)

\* Python's None, as an AST node and as a token
None == [node |-> "None"]
NoToken == Token("None", <<>>)

\* the lexer test builds no parser
NoParser == [lexer |-> None, current_token |-> NoToken, peek_token |-> NoToken,
             errors |-> <<>>]

LexerInit ==
    /\ source \in LexerSources
    /\ lexer = NewLexer
    /\ tokens = <<>>
    /\ parser = NoParser
    /\ stack = <<>>
    /\ ret = None
    /\ status = "lexing"
    /\ input = [family |-> "characters", lexemes |-> <<>>]
    /\ evaluation = None
    /\ repl = None

\* one call of next_token by the driver
NextToken ==
    /\ status = "lexing"
    /\ lexer.read_position <= Len(source) + MaxEOFReads
    /\ \E r \in {next_token(lexer)} :
          /\ lexer' = r.lexer
          /\ tokens' = Append(tokens, r.token)
    /\ UNCHANGED <<source, parser, stack, ret, status, input, evaluation, repl>>

LexerNext == NextToken

LexerSpec == LexerInit /\ [][LexerNext]_vars

-----------------------------------------------------------------------------
(* lpp/parser.py: precedences and dispatch tables *)

LOWEST == 1
EQUALS == 2
LESSGREATER == 3
SUM == 4
PRODUCT == 5
PREFIX == 6
CALL == 7

\* PRECEDENCES[token_type], LOWEST on KeyError
PRECEDENCES(token_type) ==
    CASE token_type \in {"EQ", "NOT_EQ"} -> EQUALS
      [] token_type \in {"LT", "GT"} -> LESSGREATER
      [] token_type \in {"PLUS", "MINUS"} -> SUM
      [] token_type \in {"DIVISION", "MULTIPLICATION"} -> PRODUCT
      [] OTHER -> LOWEST

\* the keys of _register_infix_fns: all of them map to _parse_infix_expression
_register_infix_fns ==
    {"PLUS", "MINUS", "DIVISION", "MULTIPLICATION", "EQ", "NOT_EQ", "LT", "GT"}

\* _register_prefix_fns: token type -> parse function
_register_prefix_fns(token_type) ==
    CASE token_type \in {"FALSE", "TRUE"} -> "_parse_boolean"
      [] token_type = "IDENT" -> "_parse_identifier"
      [] token_type = "IF" -> "_parse_if"
      [] token_type = "INT" -> "_parse_integer"
      [] token_type = "LPAREN" -> "_parse_grouped_expression"
      [] token_type \in {"MINUS", "NEGATION"} -> "_parse_prefix_expression"
      [] OTHER -> "KeyError"

(* The AST nodes the parser builds (lpp.ast), with the fields the parser   *)
(* does not set left at None.                                              *)

Program(statements) == [node |-> "Program", statements |-> statements]
LetStatement(token) ==
    [node |-> "LetStatement", token |-> token, name |-> None, value |-> None]
ReturnStatement(token) ==
    [node |-> "ReturnStatement", token |-> token, return_value |-> None]
ExpressionStatement(token) ==
    [node |-> "ExpressionStatement", token |-> token, expression |-> None]
Block(token, statements) ==
    [node |-> "Block", token |-> token, statements |-> statements]
Boolean(token, value) == [node |-> "Boolean", token |-> token, value |-> value]
Identifier(token, value) == [node |-> "Identifier", token |-> token, value |-> value]
Integer(token, value) == [node |-> "Integer", token |-> token, value |-> value]
Prefix(token, operator) ==
    [node |-> "Prefix", token |-> token, operator |-> operator, right |-> None]
Infix(token, operator, left) ==
    [node |-> "Infix", token |-> token, operator |-> operator, left |-> left,
     right |-> None]
If(token) ==
    [node |-> "If", token |-> token, condition |-> None, consequence |-> None,
     alternative |-> None]

(* Parser methods that call no other parse function: p is the parser      *)
(* before the call, the result holds the parser after it.                  *)

Advanced(p, r) ==
    [p EXCEPT !.lexer = r.lexer,
              !.current_token = p.peek_token,
              !.peek_token = r.token]

_advance_tokens(p) == The({Advanced(p, r) : r \in {next_token(p.lexer)}})

\* Parser.__init__
NewParser ==
    The({_advance_tokens(p) : p \in {_advance_tokens(
        [lexer |-> NewLexer, current_token |-> NoToken, peek_token |-> NoToken,
         errors |-> <<>>])}})

_current_precedence(p) == PRECEDENCES(p.current_token.token_type)

_peek_precedence(p) == PRECEDENCES(p.peek_token.token_type)

_expected_token_error(p, token_type) ==
    [p EXCEPT !.errors = Append(@,
        <<"Se esperaba que el siguiente token fuera ", token_type,
          " pero se obtuvo ", p.peek_token.token_type>>)]

_expected_token_silent(p, token_type) ==
    \* a mismatch is not reported
    IF p.peek_token.token_type = token_type
    THEN [parser |-> _advance_tokens(p), ok |-> TRUE]
    ELSE [parser |-> p, ok |-> FALSE]

_expected_token(p, token_type) ==
    IF p.peek_token.token_type = token_type
    THEN [parser |-> _advance_tokens(p), ok |-> TRUE]
    ELSE [parser |-> _expected_token_error(p, token_type), ok |-> FALSE]

_parse_boolean(p) ==
    Boolean(p.current_token, p.current_token.token_type = "TRUE")

_parse_identifier(p) == Identifier(p.current_token, p.current_token.literal)

\* int(literal) on a run of ASCII digits
DigitValue(c) ==
    CASE c = "0" -> 0 [] c = "1" -> 1 [] c = "2" -> 2 [] c = "3" -> 3
      [] c = "4" -> 4 [] c = "5" -> 5 [] c = "6" -> 6 [] c = "7" -> 7
      [] c = "8" -> 8 [] c = "9" -> 9

RECURSIVE int(_)
int(literal) ==
    IF Len(literal) = 1 THEN DigitValue(literal[1])
    ELSE 10 * int(SubSeq(literal, 1, Len(literal) - 1))
         + DigitValue(literal[Len(literal)])

\* int() raises ValueError on a literal that is no run of digits
_parse_integer(p) ==
    IF p.current_token.literal # <<>>
       /\ \A i \in 1..Len(p.current_token.literal) :
             p.current_token.literal[i] \in Digits
    THEN [parser |-> p,
          value |-> Integer(p.current_token, int(p.current_token.literal))]
    ELSE [parser |-> [p EXCEPT !.errors = Append(@,
                        <<"No se ha podido parsear ", p.current_token.literal,
                          " como entero.">>)],
          value |-> None]

-----------------------------------------------------------------------------
(* The parser as a machine.  The parse functions call each other           *)
(* recursively, so the model keeps their call stack: a frame names the     *)
(* function, the place in it where it goes on (`at`), and its locals.  An  *)
(* action runs one function from where it stands to its next call of a     *)
(* parse function or to its return; a returned value travels in ret.       *)

Top == stack[Len(stack)]
Callers == SubSeq(stack, 1, Len(stack) - 1)

Running(fn, at) ==
    /\ status = "parsing"
    /\ stack # <<>>
    /\ Top.fn = fn
    /\ Top.at = at
    /\ parser.lexer.read_position <= Len(source) + MaxEOFReads

\* a call: the caller's frame, set to where it resumes, under the callee's
Call(frames, p) ==
    /\ stack' = Callers \o frames
    /\ parser' = p
    /\ UNCHANGED <<ret, status>>

\* a return to the caller
Return(value, p) ==
    /\ stack' = Callers
    /\ ret' = value
    /\ parser' = p
    /\ UNCHANGED status

Fixed == UNCHANGED <<source, lexer, tokens, input, evaluation, repl>>

\* parse_program, lines 81-88: the head of the while loop
ProgramLoop(p, statements) ==
    IF p.current_token.token_type # "EOF"
    THEN Call(<<[fn |-> "parse_program", at |-> "resume", statements |-> statements],
                [fn |-> "_parse_statement", at |-> "start"]>>, p)
    ELSE /\ stack' = <<>>
         /\ ret' = Program(statements)
         /\ parser' = p
         /\ status' = "done"

ParseProgram ==
    /\ Running("parse_program", "start")
    /\ ProgramLoop(parser, <<>>)
    /\ Fixed

ParseProgramResume ==
    /\ Running("parse_program", "resume")
    /\ \E p \in {_advance_tokens(parser)} :
          ProgramLoop(p, IF ret # None
                         THEN Append(Top.statements, ret)
                         ELSE Top.statements)
    /\ Fixed

_parse_statement_dispatch(token_type) ==
    CASE token_type = "LET" -> "_parse_let_statement"
      [] token_type = "RETURN" -> "_parse_return_statement"
      [] OTHER -> "_parse_expression_statement"

ParseStatement ==
    /\ Running("_parse_statement", "start")
    /\ Call(<<[fn |-> _parse_statement_dispatch(parser.current_token.token_type),
               at |-> "start"]>>, parser)
    /\ Fixed

\* _parse_let_statement up to its loop
ParseLetStatement ==
    /\ Running("_parse_let_statement", "start")
    /\ \E ident \in {_expected_token(parser, "IDENT")} :
          IF ~ident.ok THEN Return(None, ident.parser)
          ELSE \E assign \in {_expected_token(ident.parser, "ASSIGN")} :
                  IF ~assign.ok THEN Return(None, assign.parser)
                  ELSE Call(<<[fn |-> "_parse_let_statement", at |-> "skip",
                               statement |->
                                   [LetStatement(parser.current_token)
                                       EXCEPT !.name = _parse_identifier(ident.parser)]]>>,
                            assign.parser)
    /\ Fixed

\* one turn of `while self._current_token.token_type != SEMICOLON`
SkipLoop(fn) ==
    /\ Running(fn, "skip")
    /\ IF parser.current_token.token_type # "SEMICOLON"
       THEN Call(<<Top>>, _advance_tokens(parser))
       ELSE Return(Top.statement, parser)
    /\ Fixed

LetSkip == SkipLoop("_parse_let_statement")

\* _parse_return_statement up to its loop
ParseReturnStatement ==
    /\ Running("_parse_return_statement", "start")
    /\ Call(<<[fn |-> "_parse_return_statement", at |-> "skip",
               statement |-> ReturnStatement(parser.current_token)]>>,
            _advance_tokens(parser))
    /\ Fixed

ReturnSkip == SkipLoop("_parse_return_statement")

ParseExpressionStatement ==
    /\ Running("_parse_expression_statement", "start")
    /\ Call(<<[fn |-> "_parse_expression_statement", at |-> "resume",
               statement |-> ExpressionStatement(parser.current_token)],
              [fn |-> "_parse_expression", at |-> "start", precedence |-> LOWEST]>>,
            parser)
    /\ Fixed

ParseExpressionStatementResume ==
    /\ Running("_parse_expression_statement", "resume")
    /\ Return([Top.statement EXCEPT !.expression = ret],
              IF parser.peek_token.token_type = "SEMICOLON"
              THEN _advance_tokens(parser)
              ELSE parser)
    /\ Fixed

\* _parse_expression, lines 153-166: the while loop, up to the call of the
\* infix function; `assert left_expression is not None` raises AssertionError
ExpressionLoop(p, left_expression, precedence) ==
    IF p.peek_token.token_type # "SEMICOLON" /\ precedence < _peek_precedence(p)
    THEN IF p.peek_token.token_type \notin _register_infix_fns
         THEN Return(left_expression, p)
         ELSE IF left_expression = None
         THEN /\ status' = "raised"
              /\ parser' = _advance_tokens(p)
              /\ UNCHANGED <<stack, ret>>
         ELSE Call(<<[fn |-> "_parse_expression", at |-> "resume",
                      precedence |-> precedence],
                     [fn |-> "_parse_infix_expression", at |-> "start",
                      left |-> left_expression]>>,
                   _advance_tokens(p))
    ELSE Return(left_expression, p)

\* _parse_expression, lines 141-151: the prefix function is looked up and
\* called; the three that call no parse function are run here
ParseExpression ==
    /\ Running("_parse_expression", "start")
    /\ \E prefix_parse_fn \in {_register_prefix_fns(parser.current_token.token_type)},
          integer \in {_parse_integer(parser)} :
           CASE prefix_parse_fn = "KeyError" ->
                  Return(None, [parser EXCEPT !.errors = Append(@,
                      <<"No se encontro ninguna función para parsear ",
                        parser.current_token.literal>>)])
             [] prefix_parse_fn = "_parse_boolean" ->
                  ExpressionLoop(parser, _parse_boolean(parser), Top.precedence)
             [] prefix_parse_fn = "_parse_identifier" ->
                  ExpressionLoop(parser, _parse_identifier(parser), Top.precedence)
             [] prefix_parse_fn = "_parse_integer" ->
                  ExpressionLoop(integer.parser, integer.value, Top.precedence)
             [] OTHER ->
                  Call(<<[fn |-> "_parse_expression", at |-> "resume",
                          precedence |-> Top.precedence],
                         [fn |-> prefix_parse_fn, at |-> "start"]>>, parser)
    /\ Fixed

\* back from a prefix function or from the infix function
ParseExpressionResume ==
    /\ Running("_parse_expression", "resume")
    /\ ExpressionLoop(parser, ret, Top.precedence)
    /\ Fixed

InfixRightPrecedenceLower(p) ==
    \* the right operand is parsed one level below the operator's
    _current_precedence(p) - 1

InfixRightPrecedence(p) == _current_precedence(p)

ParseInfixExpression ==
    /\ Running("_parse_infix_expression", "start")
    /\ Call(<<[fn |-> "_parse_infix_expression", at |-> "resume",
               infix |-> Infix(parser.current_token, parser.current_token.literal,
                               Top.left)],
              [fn |-> "_parse_expression", at |-> "start",
               precedence |-> InfixRightPrecedence(parser)]>>,
            _advance_tokens(parser))
    /\ Fixed

ParseInfixExpressionResume ==
    /\ Running("_parse_infix_expression", "resume")
    /\ Return([Top.infix EXCEPT !.right = ret], parser)
    /\ Fixed

ParsePrefixExpression ==
    /\ Running("_parse_prefix_expression", "start")
    /\ Call(<<[fn |-> "_parse_prefix_expression", at |-> "resume",
               prefix_expression |-> Prefix(parser.current_token,
                                            parser.current_token.literal)],
              [fn |-> "_parse_expression", at |-> "start", precedence |-> PREFIX]>>,
            _advance_tokens(parser))
    /\ Fixed

ParsePrefixExpressionResume ==
    /\ Running("_parse_prefix_expression", "resume")
    /\ Return([Top.prefix_expression EXCEPT !.right = ret], parser)
    /\ Fixed

ParseGroupedExpression ==
    /\ Running("_parse_grouped_expression", "start")
    /\ Call(<<[fn |-> "_parse_grouped_expression", at |-> "resume"],
              [fn |-> "_parse_expression", at |-> "start", precedence |-> LOWEST]>>,
            _advance_tokens(parser))
    /\ Fixed

ParseGroupedExpressionResume ==
    /\ Running("_parse_grouped_expression", "resume")
    /\ \E rparen \in {_expected_token(parser, "RPAREN")} :
          Return(IF rparen.ok THEN ret ELSE None, rparen.parser)
    /\ Fixed

\* _parse_if up to the condition
ParseIf ==
    /\ Running("_parse_if", "start")
    /\ \E lparen \in {_expected_token(parser, "LPAREN")} :
           IF ~lparen.ok THEN Return(None, lparen.parser)
           ELSE Call(<<[fn |-> "_parse_if", at |-> "condition",
                        if_expression |-> If(parser.current_token)],
                       [fn |-> "_parse_expression", at |-> "start",
                        precedence |-> LOWEST]>>,
                     _advance_tokens(lparen.parser))
    /\ Fixed

\* _parse_if from the condition to the block
ParseIfCondition ==
    /\ Running("_parse_if", "condition")
    /\ \E rparen \in {_expected_token(parser, "RPAREN")} :
       \E lbrace \in {_expected_token(rparen.parser, "LBRACE")} :
           IF ~rparen.ok THEN Return(None, rparen.parser)
           ELSE IF ~lbrace.ok THEN Return(None, lbrace.parser)
           ELSE Call(<<[fn |-> "_parse_if", at |-> "consequence",
                        if_expression |-> [Top.if_expression EXCEPT !.condition = ret]],
                       [fn |-> "_parse_block", at |-> "start"]>>,
                     lbrace.parser)
    /\ Fixed

ParseIfConsequence ==
    /\ Running("_parse_if", "consequence")
    /\ Return([Top.if_expression EXCEPT !.consequence = ret], parser)
    /\ Fixed

\* _parse_block, lines 124-133: the head of the while loop
BlockLoop(p, block_statement) ==
    IF p.current_token.token_type # "RBRACE" /\ p.current_token.token_type # "EOF"
    THEN Call(<<[fn |-> "_parse_block", at |-> "resume",
                 block_statement |-> block_statement],
                [fn |-> "_parse_statement", at |-> "start"]>>, p)
    ELSE Return(block_statement, p)

ParseBlock ==
    /\ Running("_parse_block", "start")
    /\ \E p \in {_advance_tokens(parser)} :
          BlockLoop(p, Block(parser.current_token, <<>>))
    /\ Fixed

ParseBlockResume ==
    /\ Running("_parse_block", "resume")
    /\ \E p \in {_advance_tokens(parser)} :
          BlockLoop(p, IF ret # None
                       THEN [Top.block_statement EXCEPT !.statements = Append(@, ret)]
                       ELSE Top.block_statement)
    /\ Fixed

ParserNext ==
    \/ ParseProgram
    \/ ParseProgramResume
    \/ ParseStatement
    \/ ParseLetStatement
    \/ LetSkip
    \/ ParseReturnStatement
    \/ ReturnSkip
    \/ ParseExpressionStatement
    \/ ParseExpressionStatementResume
    \/ ParseExpression
    \/ ParseExpressionResume
    \/ ParseInfixExpression
    \/ ParseInfixExpressionResume
    \/ ParsePrefixExpression
    \/ ParsePrefixExpressionResume
    \/ ParseGroupedExpression
    \/ ParseGroupedExpressionResume
    \/ ParseIf
    \/ ParseIfCondition
    \/ ParseIfConsequence
    \/ ParseBlock
    \/ ParseBlockResume

-----------------------------------------------------------------------------
(* The parser driven as tests/parser_test.py drives it: a source text is   *)
(* written, a Lexer and a Parser are built on it, parse_program is called. *)
(* The texts are sequences of lexemes joined by single blanks.             *)

Kw(token_type) == (CHOOSE k \in keywords : k[2] = token_type)[1]

RECURSIVE Join(_)
Join(lexemes) ==
    IF lexemes = <<>> THEN <<>>
    ELSE IF Len(lexemes) = 1 THEN lexemes[1]
    ELSE lexemes[1] \o <<" ">> \o Join(Tail(lexemes))

RECURSIVE ChainsOf(_, _, _)
\* operand (operator operand)^n
ChainsOf(operands, operators, n) ==
    IF n = 0 THEN operands
    ELSE {c \o <<o>> \o r : c \in ChainsOf(operands, operators, n - 1),
                            o \in operators, r \in operands}

ChainsUpTo(operands, operators, n) ==
    UNION {ChainsOf(operands, operators, k) : k \in 0..n}

\* arbitrary token sequences, well-formed or not
AnyLexemes ==
    {Kw("LET"), Kw("RETURN"), Kw("IF"), <<"(">>, <<")">>, <<"x">>, <<"5">>,
     <<"+">>, <<";">>}
AnyInputs == SeqsUpTo(AnyLexemes, MaxTokens)

PrefixOperators == {<<"-">>, <<"!">>}

\* `;`-terminated expressions
BinaryOperators ==
    {<<"+">>, <<"-">>, <<"*">>, <<"/">>, <<"<">>, <<">">>, <<"=", "=">>, <<"!", "=">>}
PlainOperands == {<< <<"a">> >>, << <<"1">> >>}
RichOperands ==
    {<< Kw("TRUE") >>,
     << <<"-">>, <<"a">> >>,
     << <<"!">>, Kw("FALSE") >>,
     << <<"!">>, <<"-">>, <<"a">> >>,
     << <<"(">>, <<"a">>, <<"+">>, <<"1">>, <<")">> >>,
     << <<"-">>, <<"(">>, <<"a">>, <<"<">>, <<"1">>, <<")">> >>}
\* one operator of each level but one, and two of one level
FewOperators == {<<"+">>, <<"-">>, <<"*">>, <<"=", "=">>}
\* sources of test_operator_precedence, one lexeme per token
PrecedenceTests ==
    {<< <<"-">>, <<"a">>, <<"*">>, <<"b">> >>,
     << <<"a">>, <<"+">>, <<"b">>, <<"*">>, <<"c">>, <<"+">>, <<"d">>, <<"/">>,
        <<"e">>, <<"-">>, <<"f">> >>,
     << <<"5">>, <<">">>, <<"4">>, <<"=", "=">>, <<"3">>, <<"<">>, <<"4">> >>,
     << <<"3">>, <<"+">>, <<"4">>, <<"*">>, <<"5">>, <<"=", "=">>, <<"3">>, <<"*">>,
        <<"1">>, <<"+">>, <<"4">>, <<"*">>, <<"5">> >>,
     << <<"1">>, <<"+">>, <<"(">>, <<"2">>, <<"+">>, <<"3">>, <<")">>, <<"+">>,
        <<"4">> >>,
     << <<"!">>, <<"(">>, Kw("TRUE"), <<"=", "=">>, Kw("TRUE"), <<")">> >>}
ExpressionInputs ==
    {c \o << <<";">> >> :
        c \in ChainsUpTo(PlainOperands, BinaryOperators, 2)
              \cup ChainsUpTo(PlainOperands, FewOperators, MaxOps)
              \cup ChainsUpTo(RichOperands, FewOperators, MaxOps - 1)
              \cup PrecedenceTests}

\* `variable` and what may follow it
LetLexemes == {<<"x">>, <<"=">>, <<"5">>, <<"+">>, <<";">>}
LetInputs == {<<Kw("LET")>> \o s : s \in SeqsUpTo(LetLexemes, MaxTokens + 1)}

\* si ( condition ) { consequence } with and without si_no { alternative }
Conditions ==
    {<< <<"x">> >>, << <<"x">>, <<"<">>, <<"y">> >>, << <<"x">>, <<"!", "=">>, <<"y">> >>}
Bodies ==
    {<<>>, << <<"x">> >>, << <<"y">> >>, << <<"x">>, <<";">> >>,
     << <<"x">>, <<";">>, <<"y">> >>}
IfInputs ==
    {<<Kw("IF"), <<"(">> >> \o c \o << <<")">>, <<"{">> >> \o b \o << <<"}">> >> :
        c \in Conditions, b \in Bodies}
IfElseInputs ==
    {i \o <<Kw("ELSE"), <<"{">> >> \o b \o << <<"}">> >> : i \in IfInputs, b \in Bodies}

\* callee ( arguments ) ;
Arguments ==
    {<< <<"1">> >>, << <<"a">> >>, << <<"2">>, <<"*">>, <<"3">> >>,
     << <<"4">>, <<"+">>, <<"5">> >>}
ArgumentLists ==
    {<<>>} \cup ChainsUpTo(Arguments, {<<",">>}, MaxArgs - 1)
CallInputs ==
    {<< <<"s","u","m","a">>, <<"(">> >> \o a \o << <<")">>, <<";">> >> :
        a \in ArgumentLists}

\* sources with one illegal character: at the start of a statement, after
\* an operator, between operands, in brackets, and after `variable x =`
\* and `regresa`
IllegalInputs ==
    {<< <<"@">> >>,
     << <<"@">>, <<";">> >>,
     << <<"5">>, <<"+">>, <<"@">>, <<";">> >>,
     << <<"-">>, <<"@">>, <<";">> >>,
     << <<"5">>, <<"@">>, <<"3">>, <<";">> >>,
     << <<"(">>, <<"@">>, <<")">> >>,
     << Kw("LET"), <<"x">>, <<"=">>, <<"@">>, <<";">> >>,
     << Kw("RETURN"), <<"@">>, <<";">> >>,
     << Kw("RETURN"), <<"5">>, <<"+">>, <<"@">>, <<";">> >>}

Inputs(family, texts) == {[family |-> family, lexemes |-> t] : t \in texts}

ParserInputs ==
    Inputs("any", AnyInputs) \cup Inputs("expression", ExpressionInputs)
    \cup Inputs("let", LetInputs) \cup Inputs("if", IfInputs)
    \cup Inputs("if_else", IfElseInputs) \cup Inputs("call", CallInputs)
    \cup Inputs("illegal", IllegalInputs)

ParserInit ==
    /\ input \in ParserInputs
    /\ source = Join(input.lexemes)
    /\ lexer = NewLexer
    /\ tokens = <<>>
    /\ parser = NewParser
    /\ stack = <<[fn |-> "parse_program", at |-> "start"]>>
    /\ ret = None
    /\ status = "parsing"
    /\ evaluation = None
    /\ repl = None

ParserSpec == ParserInit /\ [][ParserNext]_vars

-----------------------------------------------------------------------------
(* lpp/object.py: the objects evaluation yields.  Objects the code tells   *)
(* apart by identity (`is`) and not by value carry the number of their     *)
(* allocation; TRUE, FALSE and NULL are the evaluator's three singletons.  *)

IntegerObject(value) == [type |-> "INTEGER", value |-> value]
BooleanObject(value) == [type |-> "BOOLEAN", value |-> value]
StringObject(value) == [type |-> "STRING", value |-> value]
ReturnObject(value, id) == [type |-> "RETURN", value |-> value, id |-> id]
ErrorObject(message, id) == [type |-> "ERROR", message |-> message, id |-> id]
FunctionObject(parameters, body, env, id) ==
    [type |-> "FUNCTION", parameters |-> parameters, body |-> body, env |-> env,
     id |-> id]

TRUE_OBJECT == BooleanObject(TRUE)
FALSE_OBJECT == BooleanObject(FALSE)
NULL == [type |-> "NULL"]

\* a Python list of objects
List(items) == [type |-> "list", items |-> items]

\* an Environment as a value: its place in the heap
Place(env) == [type |-> "Environment", at |-> env]

\* a host-level exception leaving the evaluator, in place of a value
Exception(name) == [type |-> "EXCEPTION", name |-> name]

\* type(obj), ObjectType names for objects
type(obj) == IF obj = None THEN "NoneType" ELSE obj.type

IsException(obj) == type(obj) = "EXCEPTION"

\* Python's `left is right`
Is(left, right) == type(left) = type(right) /\ left = right

\* Environment(outer): environments live in a heap st.envs and are named by
\* their place in it; outer 0 is None
Environment(outer) == [store |-> <<>>, outer |-> outer]

RECURSIVE __getitem__(_, _, _)
\* a lookup that asks the outer environments first
__getitem___outer_first(envs, env, key) ==
    IF envs[env].outer # 0
       /\ ~IsException(__getitem__(envs, envs[env].outer, key))
    THEN __getitem__(envs, envs[env].outer, key)
    ELSE IF \E i \in 1..Len(envs[env].store) : envs[env].store[i].key = key
    THEN envs[env].store[CHOOSE i \in 1..Len(envs[env].store) :
                            envs[env].store[i].key = key].value
    ELSE Exception("KeyError")

\* Environment.__getitem__: the value, or a KeyError
__getitem__(envs, env, key) ==
    IF \E i \in 1..Len(envs[env].store) : envs[env].store[i].key = key
    THEN envs[env].store[CHOOSE i \in 1..Len(envs[env].store) :
                            envs[env].store[i].key = key].value
    ELSE IF envs[env].outer # 0 THEN __getitem__(envs, envs[env].outer, key)
    ELSE Exception("KeyError")

\* a write that goes to the outermost environment
__setitem___outermost(envs, env, key, value) ==
    [envs EXCEPT ![1].store =
        IF \E i \in 1..Len(@) : @[i].key = key
        THEN [i \in 1..Len(@) |->
                 IF @[i].key = key THEN [key |-> key, value |-> value] ELSE @[i]]
        ELSE Append(@, [key |-> key, value |-> value])]

\* Environment.__setitem__
__setitem__(envs, env, key, value) ==
    [envs EXCEPT ![env].store =
        IF \E i \in 1..Len(@) : @[i].key = key
        THEN [i \in 1..Len(@) |->
                 IF @[i].key = key THEN [key |-> key, value |-> value] ELSE @[i]]
        ELSE Append(@, [key |-> key, value |-> value])]

-----------------------------------------------------------------------------
(* lpp/ast.py nodes the evaluator reads and the parser never builds *)

Function(parameters, body) ==
    [node |-> "Function", parameters |-> parameters, body |-> body]
CallNode(function, arguments) ==
    [node |-> "Call", function |-> function, arguments |-> arguments]
StringLiteral(value) == [node |-> "StringLiteral", value |-> value]

-----------------------------------------------------------------------------
(* lpp/evaluator.py.  An evaluation carries the heap of environments, the  *)
(* count of objects allocated and a trace of what it did; every function   *)
(* returns its value (or the exception that left it) with that state.      *)

_NOT_A_FUNCTION == "No es una función: {}"
_TYPE_MISMATCH == "Discrepancia de tipos: {} {} {}"
_UNKNOWN_PREFIX_OPERATOR == "Operador desconocido: {}{}"
_UNKNOWN_INFIX_OPERATOR == "Operador desconocido: {} {} {}"
_UNKNOWN_IDENTIFIER == "Identificador no encontrado: {}"

Result(value, st) == [value |-> value, st |-> st]

Raise(name, st) == Result(Exception(name), st)

\* what the evaluation did, in order
Traced(st, event, n) ==
    [st EXCEPT !.trace = Append(@, [event |-> event, n |-> n])]

\* r, and if no exception left it, what follows it
Then(r, F(_)) == The({IF IsException(x.value) THEN x ELSE F(x) : x \in {r}})

\* message.format(*args) in a new Error
_new_error(message, args, st) ==
    Result(ErrorObject(<<message>> \o args, st.ids),
           [st EXCEPT !.ids = @ + 1])

\* a Boolean made anew, not one of the two the module keeps
_to_boolean_object_copy(value) ==
    [type |-> "BOOLEAN", value |-> value, copy |-> TRUE]

_to_boolean_object(value) == IF value THEN TRUE_OBJECT ELSE FALSE_OBJECT

\* _is_truthy taking Integer 0 for falsy
_is_truthy_zero(obj) ==
    IF Is(obj, NULL) THEN FALSE
    ELSE IF Is(obj, TRUE_OBJECT) THEN TRUE
    ELSE IF Is(obj, FALSE_OBJECT) THEN FALSE
    ELSE ~(type(obj) = "INTEGER" /\ obj.value = 0)

_is_truthy(obj) ==
    IF Is(obj, NULL) THEN FALSE
    ELSE IF Is(obj, TRUE_OBJECT) THEN TRUE
    ELSE IF Is(obj, FALSE_OBJECT) THEN FALSE
    ELSE TRUE

_evaluate_bang_operator_expression(right) ==
    IF Is(right, TRUE_OBJECT) THEN FALSE_OBJECT
    ELSE IF Is(right, FALSE_OBJECT) THEN TRUE_OBJECT
    ELSE IF Is(right, NULL) THEN TRUE_OBJECT
    ELSE FALSE_OBJECT

_evaluate_minus_operator_expression(right, st) ==
    IF type(right) # "INTEGER"
    THEN _new_error(_UNKNOWN_PREFIX_OPERATOR, <<<<"-">>, type(right)>>, st)
    ELSE Result(IntegerObject(-right.value), st)

_evaluate_prefix_expression(operator, right, st) ==
    IF operator = <<"!">> THEN Result(_evaluate_bang_operator_expression(right), st)
    ELSE IF operator = <<"-">> THEN _evaluate_minus_operator_expression(right, st)
    ELSE _new_error(_UNKNOWN_PREFIX_OPERATOR, <<operator, type(right)>>, st)

\* Python's left // right: the quotient rounded down
FloorDiv(left, right) ==
    IF right > 0 THEN left \div right ELSE (-left) \div (-right)

_evaluate_integer_infix_expression(operator, left, right, st) ==
    CASE operator = <<"+">> -> Result(IntegerObject(left.value + right.value), st)
      [] operator = <<"-">> -> Result(IntegerObject(left.value - right.value), st)
      [] operator = <<"*">> -> Result(IntegerObject(left.value * right.value), st)
      [] operator = <<"/">> ->
            IF right.value = 0 THEN Raise("ZeroDivisionError", st)
            ELSE Result(IntegerObject(FloorDiv(left.value, right.value)), st)
      [] operator = <<"<">> -> Result(_to_boolean_object(left.value < right.value), st)
      [] operator = <<">">> -> Result(_to_boolean_object(left.value > right.value), st)
      [] operator = <<"=", "=">> ->
            Result(_to_boolean_object(left.value = right.value), st)
      [] operator = <<"!", "=">> ->
            Result(_to_boolean_object(left.value # right.value), st)
      [] OTHER -> _new_error(_UNKNOWN_INFIX_OPERATOR,
                             <<type(left), operator, type(right)>>, st)

_evaluate_string_infix_expression(operator, left, right, st) ==
    CASE operator = <<"+">> -> Result(StringObject(left.value \o right.value), st)
      [] operator = <<"=", "=">> ->
            Result(_to_boolean_object(left.value = right.value), st)
      [] operator = <<"!", "=">> ->
            Result(_to_boolean_object(left.value # right.value), st)
      [] OTHER -> _new_error(_UNKNOWN_INFIX_OPERATOR,
                             <<type(left), operator, type(right)>>, st)

\* _evaluate_infix_expression naming the right type before the left
_evaluate_infix_expression_swapped(operator, left, right, st) ==
    IF type(left) = "INTEGER" /\ type(right) = "INTEGER"
    THEN _evaluate_integer_infix_expression(operator, left, right, st)
    ELSE IF type(left) = "STRING" /\ type(right) = "STRING"
    THEN _evaluate_string_infix_expression(operator, left, right, st)
    ELSE IF operator = <<"=", "=">>
    THEN Result(_to_boolean_object(Is(left, right)), st)
    ELSE IF operator = <<"!", "=">>
    THEN Result(_to_boolean_object(~Is(left, right)), st)
    ELSE IF type(left) # type(right)
    THEN _new_error(_TYPE_MISMATCH, <<type(right), operator, type(left)>>, st)
    ELSE _new_error(_UNKNOWN_INFIX_OPERATOR,
                    <<type(left), operator, type(right)>>, st)

_evaluate_infix_expression(operator, left, right, st) ==
    IF type(left) = "INTEGER" /\ type(right) = "INTEGER"
    THEN _evaluate_integer_infix_expression(operator, left, right, st)
    ELSE IF type(left) = "STRING" /\ type(right) = "STRING"
    THEN _evaluate_string_infix_expression(operator, left, right, st)
    ELSE IF operator = <<"=", "=">>
    THEN Result(_to_boolean_object(Is(left, right)), st)
    ELSE IF operator = <<"!", "=">>
    THEN Result(_to_boolean_object(~Is(left, right)), st)
    ELSE IF type(left) # type(right)
    THEN _new_error(_TYPE_MISMATCH, <<type(left), operator, type(right)>>, st)
    ELSE _new_error(_UNKNOWN_INFIX_OPERATOR,
                    <<type(left), operator, type(right)>>, st)

_evaluate_identifier(node, env, st) ==
    The({IF IsException(found)
         THEN _new_error(_UNKNOWN_IDENTIFIER, <<node.value>>, st)
         ELSE Result(found, st) :
         found \in {__getitem__(st.envs, env, node.value)}})

_unwrap_return_value(obj) == IF type(obj) = "RETURN" THEN obj.value ELSE obj

RECURSIVE ExtendLoop(_, _, _, _, _)
\* _extend_function_environment, lines 143-144: parameter idx (0-based) is
\* bound to args[idx - 1], where Python's index -1 is the last element
ExtendLoop(fn, args, idx, env, st) ==
    IF idx >= Len(fn.parameters) THEN Result(Place(env), st)
    ELSE IF (idx = 0 /\ args = <<>>) \/ idx - 1 >= Len(args)
    THEN Raise("IndexError", st)
    ELSE The({ExtendLoop(fn, args, idx + 1, env, bound) : bound \in
              {[st EXCEPT !.envs = __setitem__(@, env, fn.parameters[idx + 1].value,
                    IF idx = 0 THEN args[Len(args)] ELSE args[idx])]}})

\* a new Environment whose outer is the latest one made, the caller's when
\* the caller is itself a function
_extend_function_environment_dynamic(fn, args, st) ==
    The({ExtendLoop(fn, args, 0, Len(made.envs), made) : made \in
         {[st EXCEPT !.envs = Append(@, Environment(Len(st.envs)))]}})

\* the new Environment is put in the heap; the value returned is its place
_extend_function_environment(fn, args, st) ==
    The({ExtendLoop(fn, args, 0, Len(made.envs), made) : made \in
         {[st EXCEPT !.envs = Append(@, Environment(fn.env))]}})

RECURSIVE evaluate(_, _, _)
RECURSIVE ProgramStatements(_, _, _, _, _)
RECURSIVE BlockStatements(_, _, _, _, _)
RECURSIVE ExpressionsLoop(_, _, _, _, _)

\* the loop of _evaluate_program going on past an Error
ProgramStatementsPastError(program, i, result, env, st) ==
    IF i > Len(program.statements) THEN Result(result, st)
    ELSE Then(evaluate(program.statements[i], env, Traced(st, "statement", i)),
              LAMBDA r :
                IF type(r.value) = "RETURN" THEN Result(r.value.value, r.st)
                ELSE ProgramStatements(program, i + 1, r.value, env, r.st))

\* _evaluate_program, lines 159-168: the loop from statement i on
ProgramStatements(program, i, result, env, st) ==
    IF i > Len(program.statements) THEN Result(result, st)
    ELSE Then(evaluate(program.statements[i], env, Traced(st, "statement", i)),
              LAMBDA r :
                IF type(r.value) = "RETURN" THEN Result(r.value.value, r.st)
                ELSE IF type(r.value) = "ERROR" THEN r
                ELSE ProgramStatements(program, i + 1, r.value, env, r.st))

_evaluate_program(program, env, st) == ProgramStatements(program, 1, None, env, st)

\* the loop of _evaluate_block_statement unwrapping the Return it stops at
BlockStatementsUnwrapped(block, i, result, env, st) ==
    IF i > Len(block.statements) THEN Result(result, st)
    ELSE Then(evaluate(block.statements[i], env, Traced(st, "block statement", i)),
              LAMBDA r :
                IF r.value # None /\ (type(r.value) = "RETURN" \/ type(r.value) = "ERROR")
                THEN Result(_unwrap_return_value(r.value), r.st)
                ELSE BlockStatements(block, i + 1, r.value, env, r.st))

\* _evaluate_block_statement, lines 185-192: the loop from statement i on
BlockStatements(block, i, result, env, st) ==
    IF i > Len(block.statements) THEN Result(result, st)
    ELSE Then(evaluate(block.statements[i], env, Traced(st, "block statement", i)),
              LAMBDA r :
                IF r.value # None /\ (type(r.value) = "RETURN" \/ type(r.value) = "ERROR")
                THEN r
                ELSE BlockStatements(block, i + 1, r.value, env, r.st))

_evaluate_block_statement(block, env, st) == BlockStatements(block, 1, None, env, st)

\* _evaluate_expression, lines 198-204: the loop from expression i on
ExpressionsLoop(expressions, i, result, env, st) ==
    IF i > Len(expressions) THEN Result(List(result), st)
    ELSE Then(evaluate(expressions[i], env, st),
              LAMBDA r :
                IF r.value = None THEN Raise("AssertionError", r.st)
                ELSE ExpressionsLoop(expressions, i + 1, Append(result, r.value),
                                     env, r.st))

_evaluate_expression(expressions, env, st) ==
    ExpressionsLoop(expressions, 1, <<>>, env, st)

_evaluate_if_expression(if_expression, env, st) ==
    IF if_expression.condition = None THEN Raise("AssertionError", st)
    ELSE Then(evaluate(if_expression.condition, env, st),
              LAMBDA condition :
                IF condition.value = None THEN Raise("AssertionError", condition.st)
                ELSE IF _is_truthy(condition.value)
                THEN IF if_expression.consequence = None
                     THEN Raise("AssertionError", condition.st)
                     ELSE evaluate(if_expression.consequence, env,
                                   Traced(condition.st, "consequence", 0))
                ELSE IF if_expression.alternative # None
                THEN evaluate(if_expression.alternative, env,
                              Traced(condition.st, "alternative", 0))
                ELSE Result(NULL, condition.st))

_apply_function(fn, args, st) ==
    IF type(fn) # "FUNCTION" THEN _new_error(_NOT_A_FUNCTION, <<type(fn)>>, st)
    ELSE Then(_extend_function_environment(fn, args, st),
              LAMBDA extended_environment :
                Then(evaluate(fn.body, extended_environment.value.at,
                              Traced(extended_environment.st, "call", fn.id)),
                     LAMBDA evaluated :
                        IF evaluated.value = None
                        THEN Raise("AssertionError", evaluated.st)
                        ELSE Result(_unwrap_return_value(evaluated.value),
                                    evaluated.st)))

evaluate(node, env, st) ==
    CASE node.node = "Program" -> _evaluate_program(node, env, st)
      [] node.node = "ExpressionStatement" ->
            IF node.expression = None THEN Raise("AssertionError", st)
            ELSE evaluate(node.expression, env, st)
      \* an Integer or Boolean node is never built without its value
      [] node.node = "Integer" -> Result(IntegerObject(node.value), st)
      [] node.node = "Boolean" -> Result(_to_boolean_object(node.value), st)
      [] node.node = "Prefix" ->
            IF node.right = None THEN Raise("AssertionError", st)
            ELSE Then(evaluate(node.right, env, st),
                      LAMBDA right :
                        IF right.value = None THEN Raise("AssertionError", right.st)
                        ELSE _evaluate_prefix_expression(node.operator, right.value,
                                Traced(right.st, "prefix", 0)))
      [] node.node = "Infix" ->
            IF node.left = None \/ node.right = None THEN Raise("AssertionError", st)
            ELSE Then(evaluate(node.left, env, st),
                      LAMBDA left :
                        Then(evaluate(node.right, env, left.st),
                             LAMBDA right :
                                IF right.value = None \/ left.value = None
                                THEN Raise("AssertionError", right.st)
                                ELSE _evaluate_infix_expression(node.operator,
                                        left.value, right.value,
                                        Traced(right.st, "infix", 0))))
      [] node.node = "Block" -> _evaluate_block_statement(node, env, st)
      [] node.node = "If" -> _evaluate_if_expression(node, env, st)
      [] node.node = "ReturnStatement" ->
            IF node.return_value = None THEN Raise("AssertionError", st)
            ELSE Then(evaluate(node.return_value, env, st),
                      LAMBDA value :
                        IF value.value = None THEN Raise("AssertionError", value.st)
                        ELSE Result(ReturnObject(value.value, value.st.ids),
                                    [value.st EXCEPT !.ids = @ + 1]))
      [] node.node = "LetStatement" ->
            IF node.value = None THEN Raise("AssertionError", st)
            ELSE Then(evaluate(node.value, env, st),
                      LAMBDA value :
                        IF node.name = None THEN Raise("AssertionError", value.st)
                        ELSE Result(None,
                                [value.st EXCEPT !.envs =
                                    __setitem__(@, env, node.name.value, value.value)]))
      [] node.node = "Identifier" -> _evaluate_identifier(node, env, st)
      [] node.node = "Function" ->
            IF node.body = None THEN Raise("AssertionError", st)
            ELSE Result(FunctionObject(node.parameters, node.body, env, st.ids),
                        [st EXCEPT !.ids = @ + 1])
      [] node.node = "Call" ->
            Then(evaluate(node.function, env, st),
                 LAMBDA function :
                    \* a Call node is never built without its arguments
                    Then(_evaluate_expression(node.arguments, env, function.st),
                         LAMBDA args :
                            IF function.value = None
                            THEN Raise("AssertionError", args.st)
                            ELSE _apply_function(function.value, args.value.items,
                                                 args.st)))
      [] node.node = "StringLiteral" -> Result(StringObject(node.value), st)
      [] OTHER -> Result(None, st)

-----------------------------------------------------------------------------
(* The evaluator driven as tests/evaluator_test.py drives it: a program is *)
(* parsed from a source text, or its tree is built as the tests of         *)
(* tests/ast_test.py build theirs, and evaluate is called on it with a new *)
(* Environment.                                                            *)

\* trees built without a parser carry no tokens
Num(n) == Integer(NoToken, n)
Bool(b) == Boolean(NoToken, b)
Var(name) == Identifier(NoToken, name)
Neg(operator, right) == [Prefix(NoToken, operator) EXCEPT !.right = right]
Bin(left, operator, right) == [Infix(NoToken, operator, left) EXCEPT !.right = right]
Stmt(expression) == [ExpressionStatement(NoToken) EXCEPT !.expression = expression]
Ret(expression) == [ReturnStatement(NoToken) EXCEPT !.return_value = expression]
Let(name, expression) ==
    [LetStatement(NoToken) EXCEPT !.name = Var(name), !.value = expression]
Blk(statements) == Block(NoToken, statements)
IfElse(condition, consequence, alternative) ==
    [If(NoToken) EXCEPT !.condition = condition, !.consequence = consequence,
                        !.alternative = alternative]

foobar == <<"f","o","o","b","a","r">>

\* an operand by the type of the object it evaluates to; n is the value of
\* an INTEGER and 0 or 1 for a BOOLEAN
Operand(kind, n) == [kind |-> kind, n |-> n]

\* the integers the evaluator is run on
IntValues == (0 - MaxInt)..MaxInt

Operands ==
    {Operand("INTEGER", n) : n \in IntValues}
    \cup {Operand("BOOLEAN", n) : n \in {0, 1}}
    \cup {Operand(kind, 0) : kind \in {"NULL", "ERROR", "FUNCTION", "STRING", "RETURN"}}

\* the expression of an operand
OperandNode(operand) ==
    CASE operand.kind = "INTEGER" -> Num(operand.n)
      [] operand.kind = "BOOLEAN" -> Bool(operand.n = 1)
      [] operand.kind = "NULL" -> IfElse(Bool(FALSE), Blk(<<>>), None)
      [] operand.kind = "ERROR" -> Var(foobar)
      [] operand.kind = "FUNCTION" -> Function(<<>>, Blk(<<>>))
      [] operand.kind = "STRING" -> StringLiteral(<<"h", "i">>)
      [] operand.kind = "RETURN" -> IfElse(Bool(TRUE), Blk(<<Ret(Num(1))>>), None)

\* a tree to evaluate, with what it was built from
Tree(family, parts, node) ==
    [family |-> family, lexemes |-> <<>>, parts |-> parts, node |-> node]

\* <operator> <operand>
PrefixTrees ==
    {Tree("prefix", <<o, right>>, Stmt(Neg(o, OperandNode(right)))) :
        o \in PrefixOperators, right \in Operands}

\* <operand> <operator> <operand>
InfixTrees ==
    {Tree("infix", <<left, o, right>>,
          Stmt(Bin(OperandNode(left), o, OperandNode(right)))) :
        left \in Operands, o \in BinaryOperators, right \in Operands}

\* si (<operand>) { 10 } and si (<operand>) { 10 } si_no { 20 }
IfTrees ==
    {Tree("if", <<condition, alternative>>,
          Stmt(IfElse(OperandNode(condition), Blk(<<Stmt(Num(10))>>),
                      IF alternative = 1 THEN Blk(<<Stmt(Num(20))>>) ELSE None))) :
        condition \in Operands, alternative \in {0, 1}}

\* a statement by what it yields: a value, a Return, an Error, nothing
StatementTemplates == {"nine", "seven", "return 18", "return 10", "error", "let"}

StatementNode(kind) ==
    CASE kind = "nine" -> Stmt(Num(9))
      [] kind = "seven" -> Stmt(Num(7))
      [] kind = "return 18" -> Ret(Bin(Num(3), <<"*">>, Num(6)))
      [] kind = "return 10" -> Ret(Num(10))
      [] kind = "return 1" -> Ret(Num(1))
      [] kind = "error" -> Stmt(Bin(Bool(TRUE), <<"-">>, Bool(FALSE)))
      [] kind = "let" -> Let(<<"a">>, Num(5))

StatementNodes(kinds) == [i \in 1..Len(kinds) |-> StatementNode(kinds[i])]

\* programs of up to MaxStatements statements
ProgramTrees ==
    {Tree("program", kinds, Program(StatementNodes(kinds))) :
        kinds \in SeqsUpTo(StatementTemplates, MaxStatements)}

\* blocks of up to MaxStatements statements, evaluated as they are
BlockTrees ==
    {Tree("block", kinds, Blk(StatementNodes(kinds))) :
        kinds \in SeqsUpTo(StatementTemplates, MaxStatements)}

\* si (10 > 1) { si (10 > 1) { <inner> } <outer> } <rest>
NestedTrees ==
    {Tree("nested", <<inner, outer, rest>>,
          Program(<<Stmt(IfElse(Bin(Num(10), <<">">>, Num(1)),
                               Blk(<<Stmt(IfElse(Bin(Num(10), <<">">>, Num(1)),
                                                 Blk(StatementNodes(inner)), None))>>
                                   \o StatementNodes(outer)),
                               None))>>
                  \o StatementNodes(rest))) :
        inner \in SeqsUpTo(StatementTemplates, 2),
        outer \in SeqsUpTo({"nine", "return 1", "error"}, 1),
        rest \in SeqsUpTo({"seven"}, 1)}

\* the names of parameters, in order
ParameterNames == << <<"x">>, <<"y">>, <<"z">>, <<"w">>, <<"v">> >>

Parameters(n) == [i \in 1..n |-> Var(ParameterNames[i])]

\* the arguments 5, 3, 1, ...: argument i is 7 - 2 i
ArgumentValues(m) == [i \in 1..m |-> Num(7 - 2 * i)]

\* procedimiento(<n parameters>) { <body> }(<m arguments>), the body one of
\* the parameters, or x - y, or 1
CallTrees ==
    {Tree("call", <<n, m, body>>,
          Stmt(CallNode(Function(Parameters(n),
                    Blk(<<Stmt(IF body = 0 THEN Num(1)
                               ELSE IF body = MaxArgs + 1
                               THEN Bin(Var(<<"x">>), <<"-">>, Var(<<"y">>))
                               ELSE Var(ParameterNames[body]))>>)),
                ArgumentValues(m)))) :
        n \in 0..MaxArgs, m \in 0..MaxArgs, body \in 0..(MaxArgs + 1)}

\* variable <name> = procedimiento(<parameters>) { <body> }
LetFn(name, parameters, body) == Let(name, Function(parameters, Blk(body)))

\* <name>(<arguments>)
CallOf(name, arguments) == CallNode(Var(name), arguments)

\* programs with functions defined in one place and called in another; each
\* is given with the integer it yields under lexical scoping
ClosureProgram(shape, v1, v2) ==
    CASE shape = 1 ->
            \* variable a = v1; variable f = procedimiento() { a };
            \* variable g = procedimiento(a) { f() }; g(v2)
            <<Let(<<"a">>, Num(v1)),
              LetFn(<<"f">>, <<>>, <<Stmt(Var(<<"a">>))>>),
              LetFn(<<"g">>, <<Var(<<"a">>)>>, <<Stmt(CallOf(<<"f">>, <<>>))>>),
              Stmt(CallOf(<<"g">>, <<Num(v2)>>))>>
      [] shape = 2 ->
            \* variable m = procedimiento(a) { procedimiento() { a } };
            \* variable h = m(v1); variable a = v2; h()
            <<LetFn(<<"m">>, <<Var(<<"a">>)>>,
                    <<Stmt(Function(<<>>, Blk(<<Stmt(Var(<<"a">>))>>)))>>),
              Let(<<"h">>, CallOf(<<"m">>, <<Num(v1)>>)),
              Let(<<"a">>, Num(v2)),
              Stmt(CallOf(<<"h">>, <<>>))>>
      [] shape = 3 ->
            \* variable f = procedimiento() { a }; variable a = v1; f()
            <<LetFn(<<"f">>, <<>>, <<Stmt(Var(<<"a">>))>>),
              Let(<<"a">>, Num(v1)),
              Stmt(CallOf(<<"f">>, <<>>))>>
      [] shape = 4 ->
            \* variable f = procedimiento() { variable a = v2; a };
            \* variable a = v1; f(); a
            <<LetFn(<<"f">>, <<>>, <<Let(<<"a">>, Num(v2)), Stmt(Var(<<"a">>))>>),
              Let(<<"a">>, Num(v1)),
              Stmt(CallOf(<<"f">>, <<>>)),
              Stmt(Var(<<"a">>))>>
      [] shape = 5 ->
            \* variable f = procedimiento() { regresa v2; }; f(); v1
            <<LetFn(<<"f">>, <<>>, <<Ret(Num(v2))>>),
              Stmt(CallOf(<<"f">>, <<>>)),
              Stmt(Num(v1))>>
      [] shape = 6 ->
            \* variable f = procedimiento() { regresa v2; };
            \* si (verdadero) { f(); v1 }
            <<LetFn(<<"f">>, <<>>, <<Ret(Num(v2))>>),
              Stmt(IfElse(Bool(TRUE),
                          Blk(<<Stmt(CallOf(<<"f">>, <<>>)), Stmt(Num(v1))>>),
                          None))>>

ClosureShapes == 1..6

ClosureTrees ==
    {Tree("closure", <<shape, v1, v2>>, Program(ClosureProgram(shape, v1, v2))) :
        shape \in ClosureShapes, v1 \in IntValues, v2 \in IntValues}

\* programs that bind one name in more than one frame
FrameProgram(shape, v1, v2) ==
    CASE shape = 1 ->
            \* variable x = v1; variable f = procedimiento(x) { x }; f(v2); x
            <<Let(<<"x">>, Num(v1)),
              LetFn(<<"f">>, <<Var(<<"x">>)>>, <<Stmt(Var(<<"x">>))>>),
              Stmt(CallOf(<<"f">>, <<Num(v2)>>)),
              Stmt(Var(<<"x">>))>>
      [] shape = 2 ->
            \* variable x = v1; variable f = procedimiento(x) { x }; f(v2)
            <<Let(<<"x">>, Num(v1)),
              LetFn(<<"f">>, <<Var(<<"x">>)>>, <<Stmt(Var(<<"x">>))>>),
              Stmt(CallOf(<<"f">>, <<Num(v2)>>))>>
      [] shape = 3 ->
            \* variable x = v1;
            \* variable f = procedimiento() { variable x = v2; x }; f(); x
            <<Let(<<"x">>, Num(v1)),
              LetFn(<<"f">>, <<>>, <<Let(<<"x">>, Num(v2)), Stmt(Var(<<"x">>))>>),
              Stmt(CallOf(<<"f">>, <<>>)),
              Stmt(Var(<<"x">>))>>
      [] shape = 4 ->
            \* variable x = v1;
            \* variable f = procedimiento() { variable x = v2; x }; f()
            <<Let(<<"x">>, Num(v1)),
              LetFn(<<"f">>, <<>>, <<Let(<<"x">>, Num(v2)), Stmt(Var(<<"x">>))>>),
              Stmt(CallOf(<<"f">>, <<>>))>>
      [] shape = 5 ->
            \* variable x = v1;
            \* variable g = procedimiento() {
            \*     variable y = v2;
            \*     variable h = procedimiento() { variable y = v1; variable x = v2; y };
            \*     h(); y };
            \* g()
            <<Let(<<"x">>, Num(v1)),
              LetFn(<<"g">>, <<>>,
                    <<Let(<<"y">>, Num(v2)),
                      LetFn(<<"h">>, <<>>,
                            <<Let(<<"y">>, Num(v1)), Let(<<"x">>, Num(v2)),
                              Stmt(Var(<<"y">>))>>),
                      Stmt(CallOf(<<"h">>, <<>>)),
                      Stmt(Var(<<"y">>))>>),
              Stmt(CallOf(<<"g">>, <<>>))>>
      [] shape = 6 ->
            \* variable f = procedimiento() { variable y = v2; y }; f(); y
            <<LetFn(<<"f">>, <<>>, <<Let(<<"y">>, Num(v2)), Stmt(Var(<<"y">>))>>),
              Stmt(CallOf(<<"f">>, <<>>)),
              Stmt(Var(<<"y">>))>>
      [] shape = 7 ->
            \* variable x = v1; x; foobar
            <<Let(<<"x">>, Num(v1)), Stmt(Var(<<"x">>)), Stmt(Var(foobar))>>

FrameShapes == 1..7

FrameTrees ==
    {Tree("frame", <<shape, v1, v2>>, Program(FrameProgram(shape, v1, v2))) :
        shape \in FrameShapes, v1 \in IntValues, v2 \in IntValues}

longitud == <<"l","o","n","g","i","t","u","d">>

\* longitud("<text>")
BuiltinTrees ==
    {Tree("builtin", text, Stmt(CallOf(longitud, <<StringLiteral(text)>>))) :
        text \in {<<>>, <<"h","i">>, <<"h","o","l","a">>}}

\* an expression that evaluates to an Error
ErrorNode(kind) ==
    IF kind = "unknown" THEN Var(foobar) ELSE Bin(Bool(TRUE), <<"-">>, Bool(FALSE))

\* variable n = <error>; and after it nothing, or 9;, or n;
LetErrorTrees ==
    {Tree("let error", <<kind, rest>>,
          Program(<<Let(<<"n">>, ErrorNode(kind))>>
                  \o (CASE rest = "nothing" -> <<>>
                         [] rest = "nine" -> <<Stmt(Num(9))>>
                         [] rest = "n" -> <<Stmt(Var(<<"n">>))>>))) :
        kind \in {"unknown", "operator"}, rest \in {"nothing", "nine", "n"}}

\* an argument: an integer, or an identifier nothing binds
ArgumentNode(kind) ==
    CASE kind = "five" -> Num(5)
      [] kind = "foo" -> Var(foobar)
      [] kind = "bar" -> Var(<<"b","a","r">>)

ArgumentNodes(kinds) == [i \in 1..Len(kinds) |-> ArgumentNode(kinds[i])]

\* procedimiento(<parameters>) { 1 }(<arguments>), as many parameters as
\* arguments
ArgumentTrees ==
    {Tree("arguments", kinds,
          Stmt(CallNode(Function(Parameters(Len(kinds)), Blk(<<Stmt(Num(1))>>)),
                        ArgumentNodes(kinds)))) :
        kinds \in SeqsUpTo({"five", "foo", "bar"}, MaxArgs) \ {<<>>}}

\* expressions whose value is a Boolean or nulo, by name
TruthNames ==
    {"verdadero", "falso", "!5", "!falso", "!nulo", "1 < 2", "2 < 1", "1 == 1",
     "hi == hi", "hi != hi", "falso == falso", "nulo"}

TruthNode(name) ==
    CASE name = "verdadero" -> Bool(TRUE)
      [] name = "falso" -> Bool(FALSE)
      [] name = "!5" -> Neg(<<"!">>, Num(5))
      [] name = "!falso" -> Neg(<<"!">>, Bool(FALSE))
      [] name = "!nulo" -> Neg(<<"!">>, IfElse(Bool(FALSE), Blk(<<>>), None))
      [] name = "1 < 2" -> Bin(Num(1), <<"<">>, Num(2))
      [] name = "2 < 1" -> Bin(Num(2), <<"<">>, Num(1))
      [] name = "1 == 1" -> Bin(Num(1), <<"=", "=">>, Num(1))
      [] name = "hi == hi" ->
            Bin(StringLiteral(<<"h","i">>), <<"=", "=">>, StringLiteral(<<"h","i">>))
      [] name = "hi != hi" ->
            Bin(StringLiteral(<<"h","i">>), <<"!", "=">>, StringLiteral(<<"h","i">>))
      [] name = "falso == falso" -> Bin(Bool(FALSE), <<"=", "=">>, Bool(FALSE))
      [] name = "nulo" -> IfElse(Bool(FALSE), Blk(<<>>), None)

\* <truth> == <truth> and <truth> != <truth>
IdentityTrees ==
    {Tree("identity", <<left, o, right>>,
          Stmt(Bin(TruthNode(left), o, TruthNode(right)))) :
        left \in TruthNames, o \in {<<"=", "=">>, <<"!", "=">>}, right \in TruthNames}

EvaluatorTrees ==
    PrefixTrees \cup InfixTrees \cup IfTrees \cup ProgramTrees \cup BlockTrees
    \cup NestedTrees \cup CallTrees \cup ClosureTrees \cup FrameTrees
    \cup BuiltinTrees \cup LetErrorTrees \cup ArgumentTrees \cup IdentityTrees

\* digits of the integers written in source texts
IntLexemes == {<<"0">>, <<"1">>, <<"5">>}

\* 9; regresa 3 * 6; 9;
ReturnExample ==
    << <<"9">>, <<";">>, Kw("RETURN"), <<"3">>, <<"*">>, <<"6">>, <<";">>,
       <<"9">>, <<";">> >>

\* 5; verdadero - falso; 10;
ErrorExample ==
    << <<"5">>, <<";">>, Kw("TRUE"), <<"-">>, Kw("FALSE"), <<";">>,
       <<"1", "0">>, <<";">> >>

\* sources of tests/evaluator_test.py, one lexeme per token
EvaluatorTexts ==
    {<< l, o, r >> : l \in IntLexemes, o \in BinaryOperators, r \in IntLexemes}
    \cup {<< l, o, r, <<";">> >> :
            l \in {<<"5">>, Kw("TRUE")}, o \in BinaryOperators,
            r \in {Kw("TRUE"), Kw("FALSE")}}
    \cup {ReturnExample, ErrorExample,
          << Kw("RETURN"), <<"1", "0">>, <<";">> >>,
          << <<"!">>, foobar >>,
          << <<"-">>, foobar >>,
          << foobar, <<"+">>, <<"1">> >>,
          << foobar, <<";">> >>,
          << Kw("IF"), <<"(">>, foobar, <<")">>, <<"{">>, <<"1", "0">>, <<"}">> >>,
          << Kw("IF"), <<"(">>, <<"1">>, <<"<">>, <<"2">>, <<")">>, <<"{">>,
             <<"1", "0">>, <<"}">> >>,
          << Kw("IF"), <<"(">>, <<"1", "0">>, <<">">>, <<"1">>, <<")">>, <<"{">>,
             Kw("IF"), <<"(">>, <<"1", "0">>, <<">">>, <<"1">>, <<")">>, <<"{">>,
             Kw("RETURN"), <<"1", "0">>, <<";">>, <<"}">>,
             Kw("RETURN"), <<"1">>, <<";">>, <<"}">> >>,
          << <<"(">>, <<"1">>, <<"<">>, <<"2">>, <<")">>, <<"=", "=">>, Kw("TRUE") >>,
          << <<"-">>, <<"5">> >>,
          << <<"!">>, <<"!">>, <<"5">> >>,
          << Kw("LET"), <<"a">>, <<"=">>, <<"5">>, <<";">>, <<"a">>, <<";">> >>}

EvaluatorInputs ==
    Inputs("text", EvaluatorTexts) \cup EvaluatorTrees

\* evaluate(program, env) is called on a new Environment
NewEvaluation == [envs |-> <<Environment(0)>>, ids |-> 0, trace |-> <<>>]

EvaluatorInit ==
    /\ input \in EvaluatorInputs
    /\ source = Join(input.lexemes)
    /\ lexer = NewLexer
    /\ tokens = <<>>
    /\ evaluation = None
    /\ repl = None
    /\ IF input.family = "text"
       THEN /\ parser = NewParser
            /\ stack = <<[fn |-> "parse_program", at |-> "start"]>>
            /\ ret = None
            /\ status = "parsing"
       ELSE /\ parser = NoParser
            /\ stack = <<>>
            /\ ret = input.node
            /\ status = "done"

\* evaluated = evaluate(program, env)
Evaluate ==
    /\ status = "done"
    /\ evaluation' = evaluate(ret, 1, NewEvaluation)
    /\ status' = "evaluated"
    /\ UNCHANGED <<source, lexer, tokens, parser, stack, ret, input, repl>>

EvaluatorNext ==
    \/ ParserNext
    \/ Evaluate

EvaluatorSpec == EvaluatorInit /\ [][EvaluatorNext]_vars

-----------------------------------------------------------------------------
(* lpp/repl.py: start_repl, a line at a time.  The parser runs as above   *)
(* between a line read and the program returned; an exception leaving the *)
(* parser or evaluate ends the loop, nothing in start_repl catching it.   *)

salir == <<"s", "a", "l", "i", "r", "(", ")">>

\* the lines entered at the prompt
ReplLines ==
    {salir,
     Join(<< <<"s","a","l","i","r">>, <<"(">>, <<")">> >>),
     Join(<< <<"5">>, <<";">> >>),
     Join(<< <<"5">>, <<"/">>, <<"0">> >>),
     Join(<< foobar >>),
     Join(<< Kw("LET"), <<"x">>, <<"5">>, <<";">> >>),
     Join(<< Kw("LET"), <<"a">>, <<"=">>, <<"1">>, <<";">> >>),
     Join(<< Kw("RETURN"), <<"1">>, <<";">> >>),
     Join(<< <<"(">>, <<"1">>, <<"+">>, <<"2">>, <<")">>, <<";">> >>),
     Join(<< Kw("IF"), <<"(">>, <<"1">>, <<"<">>, <<"2">>, <<")">>, <<"{">>,
             <<"-">>, <<"5">>, <<"}">> >>)}

\* scanned = []
ReplInit ==
    /\ source = <<>>
    /\ lexer = NewLexer
    /\ tokens = <<>>
    /\ parser = NoParser
    /\ stack = <<>>
    /\ ret = None
    /\ status = "prompt"
    /\ input = [family |-> "repl", lexemes |-> <<>>]
    /\ evaluation = None
    /\ repl = [scanned |-> <<>>, line |-> <<>>, reads |-> 0, output |-> <<>>]

\* source := input('>> '), and up to the Parser made of the lines so far
ReplRead ==
    /\ status = "prompt"
    /\ \E line \in ReplLines :
          IF line = salir
          THEN /\ repl' = [repl EXCEPT !.line = line, !.reads = @ + 1]
               /\ status' = "exited"
               /\ UNCHANGED <<source, lexer, parser, stack, ret, evaluation>>
          ELSE /\ Len(repl.scanned) < MaxLines
               /\ repl' = [repl EXCEPT !.line = line, !.reads = @ + 1,
                                       !.scanned = Append(@, line)]
               /\ source' = Join(repl'.scanned)
               /\ lexer' = NewLexer'
               /\ parser' = NewParser'
               /\ stack' = <<[fn |-> "parse_program", at |-> "start"]>>
               /\ ret' = None
               /\ evaluation' = None
               /\ status' = "parsing"
    /\ UNCHANGED <<tokens, input>>

\* if len(parser.errors) > 0: _print_parse_errors(parser.errors); continue
ReplErrors ==
    /\ status = "done"
    /\ Len(parser.errors) > 0
    /\ repl' = [repl EXCEPT !.output =
                    Append(@, [printed |-> "errors", what |-> parser.errors])]
    /\ status' = "prompt"
    /\ UNCHANGED <<source, lexer, tokens, parser, stack, ret, input, evaluation>>

\* evaluated = evaluate(program, env) with env a new Environment, and the
\* print of what it gave
ReplEvaluate ==
    /\ status = "done"
    /\ Len(parser.errors) = 0
    /\ \E evaluated \in {evaluate(ret, 1, NewEvaluation)} :
          /\ evaluation' = evaluated
          /\ IF IsException(evaluated.value)
             THEN status' = "crashed" /\ UNCHANGED repl
             ELSE /\ status' = "prompt"
                  /\ repl' = [repl EXCEPT !.output =
                        IF evaluated.value = None THEN @
                        ELSE Append(@, [printed |-> "evaluated",
                                        what |-> evaluated.value])]
    /\ UNCHANGED <<source, lexer, tokens, parser, stack, ret, input>>

ReplNext ==
    \/ ReplRead
    \/ ParserNext
    \/ ReplErrors
    \/ ReplEvaluate

ReplSpec == ReplInit /\ [][ReplNext]_vars

-----------------------------------------------------------------------------
(* What the lexer claims say, read off the source text itself *)

Last(s) == s[Len(s)]

\* the character of the source at 0-based index i, "" past the end
SrcChar(i) == IF i < Len(source) THEN source[i + 1] ELSE ""

\* the index of the first character at or after i that is not whitespace
FirstNonBlank(i) ==
    IF i >= Len(source) THEN i
    ELSE CHOOSE j \in i..Len(source) :
            /\ \A k \in i..(j - 1) : SrcChar(k) \in Whitespace
            /\ SrcChar(j) \notin Whitespace

\* the index just past the longest run of letters, `_` and digits from s on
RunEnd(s) ==
    CHOOSE j \in s..Len(source) :
        /\ \A k \in s..(j - 1) : SrcChar(k) \in Letters \cup Digits
        /\ SrcChar(j) \notin Letters \cup Digits

\* a step of the lexer driver: next_token was called once
Called == tokens' # tokens

\* C1: once next_token has returned an EOF token, every later call returns
\* Token(EOF, '') and nothing else.
C1_EOFForever ==
    [][(Called /\ tokens # <<>> /\ Last(tokens).token_type = "EOF")
          => Last(tokens') = Token("EOF", <<>>)]_vars

\* the lexer went on being called after the end of a non-empty text
C1_Witness ==
    /\ Len(tokens) >= 3
    /\ tokens[1].token_type # "EOF"
    /\ tokens[Len(tokens) - 1].token_type = "EOF"
    /\ tokens[Len(tokens)] = Token("EOF", <<>>)

\* C9: EQ `==` is emitted exactly when the current character is `=` and the
\* next one is `=`, NOT_EQ `!=` exactly when they are `!` and `=`, both
\* consuming two characters; a `=` or `!` not followed by `=` gives ASSIGN or
\* NEGATION and consumes one character, so `===` lexes as EQ, ASSIGN.
C9_TwoCharacterOperators ==
    [][Called =>
        LET start == FirstNonBlank(lexer.position)
            c0 == SrcChar(start)
            c1 == SrcChar(start + 1)
            token == Last(tokens')
        IN  /\ (token.token_type = "EQ") <=> (c0 = "=" /\ c1 = "=")
            /\ (token.token_type = "NOT_EQ") <=> (c0 = "!" /\ c1 = "=")
            /\ token.token_type = "EQ" => token.literal = <<"=", "=">>
            /\ token.token_type = "NOT_EQ" => token.literal = <<"!", "=">>
            /\ token.token_type \in {"EQ", "NOT_EQ"}
                  => lexer'.position = start + 2
            /\ (c0 = "=" /\ c1 # "=")
                  => token = Token("ASSIGN", <<"=">>) /\ lexer'.position = start + 1
            /\ (c0 = "!" /\ c1 # "=")
                  => token = Token("NEGATION", <<"!">>) /\ lexer'.position = start + 1
            /\ (source = <<"=", "=", "=">> /\ Len(tokens') = 2)
                  => tokens' = <<Token("EQ", <<"=", "=">>), Token("ASSIGN", <<"=">>)>>
      ]_vars

\* `===` has been lexed as EQ, ASSIGN
C9_Witness ==
    /\ source = <<"=", "=", "=">>
    /\ Len(tokens) = 2
    /\ tokens[1].token_type = "EQ"
    /\ tokens[2].token_type = "ASSIGN"

\* C10: an identifier token is the maximal run that starts with a letter or
\* `_` and goes on with letters, `_` and digits; its kind is the keyword
\* table's entry for the whole literal, IDENT when there is none: `si_no` is
\* one ELSE token, `si` is IF, `sino` and `si2` are IDENT.
C10_Identifiers ==
    [][Called =>
        LET start == FirstNonBlank(lexer.position)
            c0 == SrcChar(start)
            token == Last(tokens')
            first == tokens'[1]
            Chars(literal) == \A i \in 1..Len(literal) : literal[i] = source[i]
        IN  /\ c0 \in Letters =>
                /\ token.literal = Slice(start, RunEnd(start))
                /\ lexer'.position = RunEnd(start)
                /\ \A k \in keywords :
                      k[1] = token.literal => token.token_type = k[2]
                /\ (\A k \in keywords : k[1] # token.literal)
                      => token.token_type = "IDENT"
            /\ token.token_type \in {"IDENT"} \cup {k[2] : k \in keywords}
                  => c0 \in Letters
            /\ source = <<"s","i","_","n","o">>
                  => first = Token("ELSE", source)
            /\ source = <<"s","i">> => first = Token("IF", source)
            /\ source = <<"s","i","n","o">> => first = Token("IDENT", source)
            /\ source = <<"s","i","2">> => first = Token("IDENT", source)
      ]_vars

\* `si_no` has been lexed as a single token, followed by EOF
C10_Witness ==
    /\ source = <<"s","i","_","n","o">>
    /\ Len(tokens) = 2
    /\ tokens[1].token_type = "ELSE"
    /\ tokens[2].token_type = "EOF"

\* the characters next_token has a token kind for
Punctuation ==
    {"=", "!", "+", "-", "*", "/", "<", ">", "(", ")", "{", "}", ",", ";"}

\* a character that is no whitespace, operator, punctuation, letter or digit
IsIllegal(c) ==
    c # "" /\ c \notin Whitespace \cup Punctuation \cup Letters \cup Digits

\* C11: a character that is not whitespace, not an operator or punctuation
\* character, not the start of an identifier and not a digit gives one
\* ILLEGAL token whose literal is that character, the lexer moves on by
\* exactly one character, and only such a character gives ILLEGAL; every
\* call returns a token.
C11_Illegal ==
    [][Called =>
        LET start == FirstNonBlank(lexer.position)
            c0 == SrcChar(start)
            token == Last(tokens')
        IN  /\ Len(tokens') = Len(tokens) + 1
            /\ IsIllegal(c0) =>
                  /\ token = Token("ILLEGAL", <<c0>>)
                  /\ lexer'.position = start + 1
            /\ token.token_type = "ILLEGAL" => IsIllegal(c0)
      ]_vars

\* `@¡¿` has been lexed as three ILLEGAL tokens
C11_Witness ==
    /\ source = <<"@", "¡", "¿">>
    /\ tokens = <<Token("ILLEGAL", <<"@">>), Token("ILLEGAL", <<"¡">>),
                 Token("ILLEGAL", <<"¿">>)>>

\* the literals of the tokens, one after the other
RECURSIVE Literals(_)
Literals(ts) == IF ts = <<>> THEN <<>> ELSE ts[1].literal \o Literals(Tail(ts))

\* a text without its whitespace
NoBlanks(text) == SelectSeq(text, LAMBDA c : c \notin Whitespace)

\* C29: the literals of the tokens returned up to the first EOF, put one
\* after the other, are the source without its whitespace: each character
\* that is not whitespace is in one literal, in order, none dropped and none
\* twice; and so far as the lexer has read at any time before
C29_LiteralsCoverSource ==
    /\ Literals(tokens) = NoBlanks(Slice(0, lexer.position))
    /\ (\E i \in 1..Len(tokens) : tokens[i].token_type = "EOF") =>
          Literals(tokens) = NoBlanks(source)

C29_Witness ==
    /\ source = <<"a", " ", "!", "=">>
    /\ Len(tokens) = 3
    /\ tokens[3] = Token("EOF", <<>>)
    /\ Literals(tokens) = <<"a", "!", "=">>

\* _read_position = _position + 1 and _character is the character there
LexerShape(l) ==
    /\ l.read_position = l.position + 1
    /\ l.character = SrcChar(l.position)

\* C30: after construction and after every call of next_token the read
\* position is one past the position and the character is the source's at
\* the position, '' past the end; a call that does not return EOF consumes
\* at least one character of the source; so call n + 1 at the latest
\* returns EOF for a source of n characters
C30_LexerProgress ==
    /\ (tokens = <<>> => LexerShape(lexer))
    /\ [][Called =>
            /\ LexerShape(lexer')
            /\ Last(tokens').token_type # "EOF" =>
                  /\ lexer'.position >= lexer.position + 1
                  /\ lexer'.position <= Len(source)
            /\ Len(tokens') = Len(source) + 1 =>
                  \E i \in 1..Len(tokens') : tokens'[i].token_type = "EOF"
         ]_vars

C30_Witness ==
    /\ source = <<"+", "+", "+", "+">>
    /\ Len(tokens) = 5
    /\ tokens[4].token_type = "PLUS"
    /\ tokens[5] = Token("EOF", <<>>)
    /\ lexer.position = 5

-----------------------------------------------------------------------------
(* What the parser claims say *)

Done == status = "done"

\* the only statement of the program returned, None when it is not the only one
OnlyStatement ==
    IF Done /\ Len(ret.statements) = 1 THEN ret.statements[1] ELSE None

\* the kinds of the statements of the program returned
StatementKinds == {ret.statements[i].node : i \in 1..Len(ret.statements)}

\* C2: parse_program terminates on every source text: a run that has not
\* returned (or raised) can always take its next step, it never goes on
\* reading past the end of the text without end.
C2_Terminates == status \in {"done", "raised"} \/ ENABLED ParserNext

\* C3: parse_program reports problems in parser.errors only and never raises
\* an exception or an assertion failure.
C3_NeverRaises == status # "raised"

\* the text of an expression input without its `;`
ExpressionText == SubSeq(input.lexemes, 1, Len(input.lexemes) - 1)

\* the precedence level the claim gives a binary operator
Level(operator) ==
    CASE operator \in {<<"=", "=">>, <<"!", "=">>} -> 1
      [] operator \in {<<"<">>, <<">">>} -> 2
      [] operator \in {<<"+">>, <<"-">>} -> 3
      [] operator \in {<<"*">>, <<"/">>} -> 4

\* how many parentheses are open before lexeme i of e
Depth(e, i) ==
    Cardinality({k \in 1..(i - 1) : e[k] = <<"(">>})
    - Cardinality({k \in 1..(i - 1) : e[k] = <<")">>})

\* the places of e where a binary operator stands outside all parentheses
BinaryPlaces(e) ==
    {i \in 2..Len(e) :
        /\ e[i] \in BinaryOperators
        /\ e[i - 1] \notin BinaryOperators \cup PrefixOperators \cup {<<"(">>}
        /\ Depth(e, i) = 0}

\* the operator applied last: of the lowest level, and the rightmost of these
LastApplied(e) ==
    CHOOSE i \in BinaryPlaces(e) :
        \A j \in BinaryPlaces(e) :
            \/ Level(e[i]) < Level(e[j])
            \/ (Level(e[i]) = Level(e[j]) /\ i >= j)

Atom(lexeme) ==
    IF lexeme = Kw("TRUE") THEN [boolean |-> TRUE]
    ELSE IF lexeme = Kw("FALSE") THEN [boolean |-> FALSE]
    ELSE IF \A i \in 1..Len(lexeme) : lexeme[i] \in Digits
    THEN [integer |-> int(lexeme)]
    ELSE [identifier |-> lexeme]

\* the grouping the claim's rules give the expression e: higher levels bind
\* tighter, equal levels group left to right, a prefix operator binds tighter
\* than every binary one
RECURSIVE Grouping(_)
Grouping(e) ==
    IF BinaryPlaces(e) # {} THEN
        The({[infix |-> e[i],
              left |-> The({Grouping(l) : l \in {SubSeq(e, 1, i - 1)}}),
              right |-> The({Grouping(r) : r \in {SubSeq(e, i + 1, Len(e))}})] :
             i \in {LastApplied(e)}})
    ELSE IF e[1] \in PrefixOperators THEN
        [prefix |-> e[1], right |-> The({Grouping(r) : r \in {Tail(e)}})]
    ELSE IF e[1] = <<"(">> THEN
        The({Grouping(r) : r \in {SubSeq(e, 2, Len(e) - 1)}})
    ELSE Atom(e[1])

\* the grouping of a tree the parser built
RECURSIVE Shape(_)
Shape(n) ==
    CASE n.node = "Infix" ->
            [infix |-> n.operator, left |-> Shape(n.left), right |-> Shape(n.right)]
      [] n.node = "Prefix" -> [prefix |-> n.operator, right |-> Shape(n.right)]
      [] n.node = "Integer" -> [integer |-> n.value]
      [] n.node = "Boolean" -> [boolean |-> n.value]
      [] n.node = "Identifier" -> [identifier |-> n.value]
      [] OTHER -> [node |-> n.node]

Id(name) == [identifier |-> <<name>>]
Op(left, operator, right) == [infix |-> <<operator>>, left |-> left, right |-> right]

\* a + b * c + d / e - f ;
LongExample == Join(
    << <<"a">>, <<"+">>, <<"b">>, <<"*">>, <<"c">>, <<"+">>, <<"d">>, <<"/">>,
       <<"e">>, <<"-">>, <<"f">>, <<";">> >>)

\* (((a + (b * c)) + (d / e)) - f)
LongExampleTree ==
    Op(Op(Op(Id("a"), "+", Op(Id("b"), "*", Id("c"))), "+",
          Op(Id("d"), "/", Id("e"))), "-", Id("f"))

\* - a * b ;
PrefixExample == Join(<< <<"-">>, <<"a">>, <<"*">>, <<"b">>, <<";">> >>)

\* ((-a) * b)
PrefixExampleTree == Op([prefix |-> <<"-">>, right |-> Id("a")], "*", Id("b"))

\* C4: a `;`-terminated expression of identifiers, integers, booleans, prefix
\* `-` and `!`, parentheses and the binary operators is parsed to the end
\* without errors as one expression statement, whose tree groups a higher
\* level tighter than a lower one and equal levels left to right:
\* `a + b * c + d / e - f` is (((a + (b * c)) + (d / e)) - f) and `-a * b`
\* is ((-a) * b).
C4_Precedence ==
    input.family = "expression" =>
        /\ status # "raised"
        /\ Done \/ ENABLED ParserNext
        /\ Done =>
            /\ parser.errors = <<>>
            /\ OnlyStatement.node = "ExpressionStatement"
            /\ Shape(OnlyStatement.expression) = Grouping(ExpressionText)
            /\ source = LongExample
                  => Shape(OnlyStatement.expression) = LongExampleTree
            /\ source = PrefixExample
                  => Shape(OnlyStatement.expression) = PrefixExampleTree

\* `a + b * c + d / e - f;` has been parsed
C4_Witness ==
    /\ Done
    /\ source = LongExample
    /\ OnlyStatement.expression.node = "Infix"
    /\ OnlyStatement.expression.operator = <<"-">>
    /\ OnlyStatement.expression.left.operator = <<"+">>

\* the text starts with `variable <IDENT> = <atom>`, and a `;` or the end of
\* the text follows
LetOfAtom ==
    /\ input.family = "let"
    /\ Len(input.lexemes) \in {4, 5}
    /\ input.lexemes[2] = <<"x">>
    /\ input.lexemes[3] = <<"=">>
    /\ input.lexemes[4] \in {<<"x">>, <<"5">>}
    /\ Len(input.lexemes) = 5 => input.lexemes[5] = <<";">>

\* C5: `variable <IDENT> = <expr>`, with or without `;`, is parsed to a
\* LetStatement whose name is the identifier and whose value is the
\* expression.
C5_LetValue ==
    LetOfAtom =>
        /\ Done \/ ENABLED ParserNext
        /\ Done =>
            /\ OnlyStatement.node = "LetStatement"
            /\ OnlyStatement.name.node = "Identifier"
            /\ OnlyStatement.name.value = <<"x">>
            /\ Shape(OnlyStatement.value) = Atom(input.lexemes[4])

\* the token that follows the peek token
TokenAfterPeek == next_token(parser.lexer).token

\* what _parse_let_statement expects and does not find, None when it finds
\* IDENT and then ASSIGN
LetMismatch ==
    IF parser.peek_token.token_type # "IDENT"
    THEN [expected |-> "IDENT", found |-> parser.peek_token]
    ELSE IF TokenAfterPeek.token_type # "ASSIGN"
    THEN [expected |-> "ASSIGN", found |-> TokenAfterPeek]
    ELSE None

\* variable x 5 ;
MismatchExample == Join(<<Kw("LET"), <<"x">>, <<"5">>, <<";">> >>)

\* C6: a `variable` not followed by IDENT and then ASSIGN adds exactly one
\* diagnostic 'Se esperaba que el siguiente token fuera <kind> pero se obtuvo
\* <kind>', gives no statement, so that no LetStatement enters the program,
\* and leaves the token that did not fit to be parsed next: `variable x 5;`
\* ends with one diagnostic and the one statement `5`.
C6_LetMismatch ==
    [][/\ (Running("_parse_let_statement", "start") /\ LetMismatch # None) =>
            /\ parser'.errors = Append(parser.errors,
                  <<"Se esperaba que el siguiente token fuera ",
                    LetMismatch.expected, " pero se obtuvo ",
                    LetMismatch.found.token_type>>)
            /\ ret' = None
            /\ stack' = Callers
            /\ parser'.peek_token = LetMismatch.found
       /\ (Running("parse_program", "resume") /\ ret = None
              /\ Top.statements = <<>> /\ status' = "parsing") =>
            /\ stack'[1].statements = <<>>
            /\ parser'.current_token = parser.peek_token
       /\ (status' = "done" /\ source = MismatchExample) =>
            /\ parser'.errors =
                  << <<"Se esperaba que el siguiente token fuera ", "ASSIGN",
                       " pero se obtuvo ", "INT">> >>
            /\ Len(ret'.statements) = 1
            /\ ret'.statements[1].node = "ExpressionStatement"
            /\ Shape(ret'.statements[1].expression) = [integer |-> 5]
      ]_vars

\* `variable x 5;` has been parsed to the end
C6_Witness ==
    /\ Done
    /\ source = MismatchExample
    /\ Len(parser.errors) = 1
    /\ "LetStatement" \notin StatementKinds

\* the statements of a block, by their grouping
BlockShapes(block) ==
    [i \in 1..Len(block.statements) |-> Shape(block.statements[i].expression)]

\* the statements between `{` and `}` of an if input: the lexemes from `from`
\* on, without the `;`
RECURSIVE BodyShapes(_, _)
BodyShapes(lexemes, from) ==
    IF lexemes[from] = <<"}">> THEN <<>>
    ELSE IF lexemes[from] = <<";">> THEN BodyShapes(lexemes, from + 1)
    ELSE <<Atom(lexemes[from])>> \o BodyShapes(lexemes, from + 1)

\* the place after the first `{` of the lexemes from `from` on
AfterBrace(lexemes, from) ==
    1 + CHOOSE i \in from..Len(lexemes) :
            lexemes[i] = <<"{">> /\ \A k \in from..(i - 1) : lexemes[k] # <<"{">>

\* C7: `si ( <cond> ) { <consequence> } si_no { <alternative> }` is parsed
\* without errors to one If expression whose consequence and alternative are
\* Blocks of the respective statements; without `si_no` the alternative is
\* absent.
C7_IfElse ==
    (Done /\ input.family \in {"if", "if_else"}) =>
        /\ parser.errors = <<>>
        /\ OnlyStatement.node = "ExpressionStatement"
        /\ OnlyStatement.expression.node = "If"
        /\ OnlyStatement.expression.consequence.node = "Block"
        /\ BlockShapes(OnlyStatement.expression.consequence)
              = BodyShapes(input.lexemes, AfterBrace(input.lexemes, 1))
        /\ input.family = "if" => OnlyStatement.expression.alternative = None
        /\ input.family = "if_else" =>
              /\ OnlyStatement.expression.alternative.node = "Block"
              /\ BlockShapes(OnlyStatement.expression.alternative)
                    = BodyShapes(input.lexemes,
                          AfterBrace(input.lexemes,
                                     AfterBrace(input.lexemes, 1)))

\* C8: `(` after a parsed left expression is an infix of precedence CALL:
\* `<callee> ( <arguments> ) ;` is parsed without errors to one Call of the
\* callee.
C8_Call ==
    (Done /\ input.family = "call") =>
        /\ parser.errors = <<>>
        /\ OnlyStatement.node = "ExpressionStatement"
        /\ OnlyStatement.expression.node = "Call"
        /\ PRECEDENCES("LPAREN") = CALL
        /\ "LPAREN" \in _register_infix_fns

\* the characters of the source the lexer gives ILLEGAL tokens for
IllegalCharacters == SelectSeq(source, LAMBDA c : IsIllegal(c))

\* C23: every ILLEGAL token of a source leaves a diagnostic in
\* parser.errors once parse_program has returned, wherever it stands: at the
\* start of a statement, after an operator, or in what follows
\* `variable x =` or `regresa`
C23_IllegalDiagnosed ==
    (Done /\ input.family = "illegal") =>
        /\ Len(IllegalCharacters) = 1
        /\ Len(parser.errors) >= 1

-----------------------------------------------------------------------------
(* What the evaluator claims say, read off the tree or text evaluated *)

Evaluated == status = "evaluated"

\* the events of one kind the evaluation left in its trace, in order
Events(kind) == SelectSeq(evaluation.st.trace, LAMBDA e : e.event = kind)

\* the message of an Error: the template and what fills it, in order
Message(template, args) == <<template>> \o args

IsError(obj, message) == type(obj) = "ERROR" /\ obj.message = message

\* the first place of kinds holding one of stops, or one past the end
FirstOf(kinds, stops) ==
    IF \E i \in 1..Len(kinds) : kinds[i] \in stops
    THEN CHOOSE i \in 1..Len(kinds) :
            kinds[i] \in stops /\ \A j \in 1..(i - 1) : kinds[j] \notin stops
    ELSE Len(kinds) + 1

Returns == {"return 18", "return 10", "return 1"}

\* the object a statement that goes well leaves, a Return's being its payload
TemplateValue(kind) ==
    CASE kind = "nine" -> IntegerObject(9)
      [] kind = "seven" -> IntegerObject(7)
      [] kind = "return 18" -> IntegerObject(18)
      [] kind = "return 10" -> IntegerObject(10)
      [] kind = "return 1" -> IntegerObject(1)
      [] kind = "let" -> None

BooleanMinusBoolean ==
    Message(_UNKNOWN_INFIX_OPERATOR, <<"BOOLEAN", <<"-">>, "BOOLEAN">>)

\* C12: a Program stops at its first statement yielding a Return, the result
\* being the payload and no later statement evaluated; with no Return and
\* no Error the result is the last statement's value; and the source text
\* `9; regresa 3 * 6; 9;` gives 18
C12_ProgramReturn ==
    Evaluated =>
        /\ input.family = "program" =>
              LET kinds == input.parts
                  k == FirstOf(kinds, Returns \cup {"error"})
              IN  /\ (k <= Len(kinds) /\ kinds[k] \in Returns) =>
                        /\ evaluation.value = TemplateValue(kinds[k])
                        /\ Len(Events("statement")) = k
                  /\ k > Len(kinds) =>
                        evaluation.value =
                            IF kinds = <<>> THEN None
                            ELSE TemplateValue(kinds[Len(kinds)])
        /\ input.lexemes = ReturnExample => evaluation.value = IntegerObject(18)

\* C13: a Program whose statement yields an Error returns that Error, its
\* message unchanged, and evaluates none of the statements after it;
\* `5; verdadero - falso; 10;` gives 'Operador desconocido: BOOLEAN - BOOLEAN'
C13_ProgramError ==
    Evaluated =>
        /\ input.family = "program" =>
              LET kinds == input.parts
                  k == FirstOf(kinds, Returns \cup {"error"})
              IN  (k <= Len(kinds) /\ kinds[k] = "error") =>
                        /\ IsError(evaluation.value, BooleanMinusBoolean)
                        /\ Len(Events("statement")) = k
                        /\ Len(Events("infix")) = 1
        /\ input.lexemes = ErrorExample =>
              /\ IsError(evaluation.value, BooleanMinusBoolean)
              /\ Len(Events("statement")) = 2

C13_Witness ==
    /\ Evaluated
    /\ input.lexemes = ErrorExample
    /\ Len(ret.statements) = 3
    /\ evaluation.value.type = "ERROR"

\* what a statement that stops a block or a program leaves, a Return's
\* payload when unwrapped is set
Stopped(obj, kind, unwrapped) ==
    IF kind = "error" THEN IsError(obj, BooleanMinusBoolean)
    ELSE IF unwrapped THEN obj = TemplateValue(kind)
    ELSE type(obj) = "RETURN" /\ obj.value = TemplateValue(kind)

FoobarNotFound == Message(_UNKNOWN_IDENTIFIER, <<foobar>>)

\* !foobar, -foobar, foobar + 1 and si (foobar) { 10 }
FoobarExamples ==
    {<< <<"!">>, foobar >>,
     << <<"-">>, foobar >>,
     << foobar, <<"+">>, <<"1">> >>,
     << Kw("IF"), <<"(">>, foobar, <<")">>, <<"{">>, <<"1", "0">>, <<"}">> >>}

\* C15: when the operand of a prefix expression, an operand of an infix
\* expression or the condition of an `si` evaluates to an Error, the whole
\* expression evaluates to that Error, no operator being applied and no
\* branch chosen; !foobar, -foobar, foobar + 1 and si (foobar) { 10 } give
\* 'Identificador no encontrado: foobar'
C15_ErrorOperands ==
    Evaluated =>
        /\ (input.family = "prefix" /\ input.parts[2].kind = "ERROR") =>
              /\ IsError(evaluation.value, FoobarNotFound)
              /\ Events("prefix") = <<>>
        /\ (input.family = "infix"
              /\ (input.parts[1].kind = "ERROR" \/ input.parts[3].kind = "ERROR")) =>
              /\ IsError(evaluation.value, FoobarNotFound)
              /\ Events("infix") = <<>>
        /\ (input.family = "if" /\ input.parts[1].kind = "ERROR") =>
              /\ IsError(evaluation.value, FoobarNotFound)
              /\ Events("consequence") = <<>>
              /\ Events("alternative") = <<>>
        /\ input.lexemes \in FoobarExamples =>
              IsError(evaluation.value, FoobarNotFound)

\* C16: a Function of n >= 1 parameters called with n arguments has its
\* parameter i bound to argument i in the body, for every i;
\* procedimiento(x, y) { x - y }(5, 3) gives 2
C16_ByPosition ==
    (Evaluated /\ input.family = "call") =>
        LET n == input.parts[1]
            m == input.parts[2]
            body == input.parts[3]
        IN  (n >= 1 /\ m = n) =>
                /\ body \in 1..n =>
                      evaluation.value = IntegerObject(ArgumentValues(m)[body].value)
                /\ (body = MaxArgs + 1 /\ n = 2) =>
                      evaluation.value = IntegerObject(2)

\* C18: evaluating a program that parsed without errors ends with an
\* object, never with an exception of the host: not for any Integer
\* operands, a zero divisor among them, and not for any number of arguments
\* of a call against the number of parameters
C18_NoHostException ==
    Evaluated =>
        /\ (input.family = "text" /\ parser.errors = <<>>) =>
              ~IsException(evaluation.value)
        /\ (input.family = "infix"
              /\ input.parts[1].kind = "INTEGER" /\ input.parts[3].kind = "INTEGER") =>
              ~IsException(evaluation.value)
        /\ input.family = "call" => ~IsException(evaluation.value)

\* C17: the body of a called Function is evaluated in a new environment
\* whose outer is the environment the function literal was evaluated in,
\* not the caller's: a free identifier of the body is looked up along the
\* chain of the place of definition; and a Return the body yields is
\* unwrapped, the caller's statements going on after the call
C17_Closures ==
    (Evaluated /\ input.family = "closure") =>
        LET shape == input.parts[1]
            envs == evaluation.st.envs
        IN  /\ evaluation.value = IntegerObject(input.parts[2])
            /\ shape = 1 => Len(envs) = 3 /\ envs[2].outer = 1 /\ envs[3].outer = 1
            /\ shape = 2 => Len(envs) = 3 /\ envs[2].outer = 1 /\ envs[3].outer = 2
            /\ shape \in {3, 4, 5, 6} => Len(envs) = 2 /\ envs[2].outer = 1
            /\ shape = 5 => Len(Events("statement")) = 3
            /\ shape = 6 => Len(Events("block statement")) = 3

C17_Witness ==
    /\ Evaluated
    /\ input.family = "closure"
    /\ input.parts = <<1, 1, 2>>
    /\ evaluation.value = IntegerObject(1)
    /\ Len(Events("call")) = 2

\* the operators of arithmetic and order
ArithmeticOperators == {<<"+">>, <<"-">>, <<"*">>, <<"/">>, <<"<">>, <<">">>}

\* C19: for + - * / < >, operands of different types give the Error
\* 'Discrepancia de tipos: <left type> <operator> <right type>', and
\* operands of one type that is neither INTEGER nor STRING give
\* 'Operador desconocido: <left type> <operator> <right type>'
C19_InfixErrors ==
    Evaluated =>
        /\ (input.family = "infix" /\ input.parts[2] \in ArithmeticOperators) =>
              LET left == input.parts[1].kind
                  o == input.parts[2]
                  right == input.parts[3].kind
              IN  /\ left # right =>
                        IsError(evaluation.value,
                                Message(_TYPE_MISMATCH, <<left, o, right>>))
                  /\ (left = right /\ left \notin {"INTEGER", "STRING"}) =>
                        IsError(evaluation.value,
                                Message(_UNKNOWN_INFIX_OPERATOR, <<left, o, right>>))
        /\ (input.family = "text" /\ Len(input.lexemes) = 4
              /\ input.lexemes[2] \in ArithmeticOperators
              /\ input.lexemes[3] \in {Kw("TRUE"), Kw("FALSE")}) =>
              IsError(evaluation.value,
                      IF input.lexemes[1] = <<"5">>
                      THEN Message(_TYPE_MISMATCH,
                                   <<"INTEGER", input.lexemes[2], "BOOLEAN">>)
                      ELSE Message(_UNKNOWN_INFIX_OPERATOR,
                                   <<"BOOLEAN", input.lexemes[2], "BOOLEAN">>))

C19_Witness ==
    /\ Evaluated
    /\ input.lexemes = << <<"5">>, <<"+">>, Kw("TRUE"), <<";">> >>
    /\ parser.errors = <<>>
    /\ evaluation.value.type = "ERROR"
    /\ evaluation.value.message = <<_TYPE_MISMATCH, "INTEGER", <<"+">>, "BOOLEAN">>

\* nulo and falso
Falsy(operand) ==
    operand.kind = "NULL" \/ (operand.kind = "BOOLEAN" /\ operand.n = 0)

\* the consequences evaluated for the operand itself: the RETURN operand is
\* an `si` whose consequence yields the Return
OperandConsequences(operand) == IF operand.kind = "RETURN" THEN 1 ELSE 0

\* C20: `!` and `si` agree on what is true: !x is verdadero when x is falso
\* or nulo and falso for every other object, Integer 0 among them; `si`
\* evaluates its consequence when !c is falso, else its alternative, and
\* gives nulo when there is none
C20_Truthiness ==
    Evaluated =>
        /\ (input.family = "prefix" /\ input.parts[1] = <<"!">>) =>
              evaluation.value =
                  IF Falsy(input.parts[2]) THEN TRUE_OBJECT ELSE FALSE_OBJECT
        /\ input.family = "if" =>
              LET c == input.parts[1]
                  alternative == input.parts[2] = 1
              IN  /\ ~Falsy(c) =>
                        /\ evaluation.value = IntegerObject(10)
                        /\ Len(Events("consequence")) = 1 + OperandConsequences(c)
                        /\ Events("alternative") = <<>>
                  /\ (Falsy(c) /\ alternative) =>
                        /\ evaluation.value = IntegerObject(20)
                        /\ Len(Events("alternative")) = 1
                        /\ Events("consequence") = <<>>
                  /\ (Falsy(c) /\ ~alternative) =>
                        /\ evaluation.value = NULL
                        /\ Events("consequence") = <<>>

C20_Witness ==
    /\ Evaluated
    /\ input.family = "if"
    /\ input.parts = <<Operand("INTEGER", 0), 1>>
    /\ evaluation.value = IntegerObject(10)

\* C22: an identifier no environment binds is looked up among the built-in
\* functions before it is an unknown identifier, and calling the Builtin
\* found applies it to the evaluated arguments: longitud("hola") gives 4
C22_Builtins ==
    (Evaluated /\ input.family = "builtin") =>
        evaluation.value = IntegerObject(Len(input.parts))

\* the names an environment of the heap left by the evaluation binds
Keys(env) ==
    {evaluation.st.envs[env].store[i].key :
        i \in 1..Len(evaluation.st.envs[env].store)}

\* what an environment of that heap binds a name to
Bound(env, key) ==
    LET store == evaluation.st.envs[env].store
    IN  store[CHOOSE i \in 1..Len(store) : store[i].key = key].value

ErrorMessage(kind) ==
    IF kind = "unknown" THEN FoobarNotFound ELSE BooleanMinusBoolean

\* C24: `variable n = e` with e evaluating to an Error yields that Error and
\* binds nothing to n; the Program ends with that Error there and then
C24_LetError ==
    (Evaluated /\ input.family = "let error") =>
        /\ IsError(evaluation.value, ErrorMessage(input.parts[1]))
        /\ <<"n">> \notin Keys(1)
        /\ Len(Events("statement")) = 1

ArgumentName(kind) == IF kind = "foo" THEN foobar ELSE <<"b","a","r">>

\* C25: the arguments of a call are evaluated from the left, and when one
\* evaluates to an Error the call evaluates to that one Error: no argument
\* after it is evaluated and the body is not run
C25_ArgumentError ==
    (Evaluated /\ input.family = "arguments") =>
        LET kinds == input.parts
            k == FirstOf(kinds, {"foo", "bar"})
        IN  k <= Len(kinds) =>
                /\ IsError(evaluation.value,
                           Message(_UNKNOWN_IDENTIFIER, <<ArgumentName(kinds[k])>>))
                /\ Events("call") = <<>>
                /\ evaluation.st.ids = 2

\* C26: binding parameters and `variable` statements in a call write to
\* the call's new environment only: after the call the environment the
\* function was made in, the caller's and every outer one bind what they
\* bound before, also when the body binds a name one of them binds
C26_InnermostWrites ==
    (Evaluated /\ input.family = "frame") =>
        LET shape == input.parts[1]
            v1 == IntegerObject(input.parts[2])
            v2 == IntegerObject(input.parts[3])
        IN  /\ shape \in 1..4 =>
                  /\ Len(evaluation.st.envs) = 2
                  /\ Keys(1) = {<<"x">>, <<"f">>} /\ Bound(1, <<"x">>) = v1
                  /\ Keys(2) = {<<"x">>} /\ Bound(2, <<"x">>) = v2
            /\ shape \in {1, 3} => evaluation.value = v1
            /\ shape = 5 =>
                  /\ Len(evaluation.st.envs) = 3
                  /\ Keys(1) = {<<"x">>, <<"g">>} /\ Bound(1, <<"x">>) = v1
                  /\ Keys(2) = {<<"y">>, <<"h">>} /\ Bound(2, <<"y">>) = v2
                  /\ Keys(3) = {<<"y">>, <<"x">>}
                  /\ Bound(3, <<"y">>) = v1 /\ Bound(3, <<"x">>) = v2
                  /\ evaluation.value = v2
            /\ shape = 6 => Keys(1) = {<<"f">>} /\ Keys(2) = {<<"y">>}

C26_Witness ==
    /\ Evaluated
    /\ input.family = "frame"
    /\ input.parts = <<5, 1, 2>>
    /\ Len(Events("call")) = 2
    /\ evaluation.value = IntegerObject(2)

\* C27: an identifier evaluates to what the innermost environment of the
\* chain binding it binds it to, an inner binding hiding an outer one, and
\* to the Error 'Identificador no encontrado: <name>' when none of the
\* chain binds it and only then; looking up changes no environment
C27_Lookup ==
    (Evaluated /\ input.family = "frame") =>
        LET shape == input.parts[1]
            v1 == IntegerObject(input.parts[2])
            v2 == IntegerObject(input.parts[3])
        IN  /\ shape \in {1, 3} => evaluation.value = v1
            /\ shape \in {2, 4, 5} => evaluation.value = v2
            /\ shape = 6 =>
                  IsError(evaluation.value, Message(_UNKNOWN_IDENTIFIER, <<<<"y">>>>))
            /\ shape = 7 =>
                  /\ IsError(evaluation.value, FoobarNotFound)
                  /\ Len(Events("statement")) = 3
                  /\ evaluation.st.envs =
                        <<[store |-> <<[key |-> <<"x">>, value |-> v1]>>, outer |-> 0]>>

C27_Witness ==
    /\ Evaluated
    /\ input.family = "frame"
    /\ input.parts = <<2, 1, 2>>
    /\ evaluation.value = IntegerObject(2)
    /\ Bound(1, <<"x">>) = IntegerObject(1)

\* what a truth expression is worth
Truth(name) ==
    CASE name \in {"verdadero", "!falso", "!nulo", "1 < 2", "1 == 1", "hi == hi",
                   "falso == falso"} -> "verdadero"
      [] name \in {"falso", "!5", "2 < 1", "hi != hi"} -> "falso"
      [] name = "nulo" -> "nulo"

\* C28: every Boolean an evaluation yields, from a literal, from `!`, from
\* comparing integers or strings or from comparing by identity, is one of
\* TRUE and FALSE, and every nulo is NULL, so that `==` and `!=` between
\* two of them, which compare by identity, say what comparing their
\* values says
C28_Singletons ==
    Evaluated =>
        /\ type(evaluation.value) = "BOOLEAN" =>
              evaluation.value \in {TRUE_OBJECT, FALSE_OBJECT}
        /\ type(evaluation.value) = "NULL" => evaluation.value = NULL
        /\ input.family = "identity" =>
              LET same == Truth(input.parts[1]) = Truth(input.parts[3])
              IN  evaluation.value =
                      IF input.parts[2] = <<"=", "=">>
                      THEN _to_boolean_object(same)
                      ELSE _to_boolean_object(~same)

C28_Witness ==
    /\ Evaluated
    /\ input.family = "identity"
    /\ input.parts = <<"!5", <<"=", "=">>, "2 < 1">>
    /\ evaluation.value = TRUE_OBJECT

\* C21: in every turn of the REPL the text parsed is the lines entered so
\* far joined, evaluate is given a new empty environment, and when the
\* parser has errors they are printed and evaluate is not called in that
\* turn; the loop ends when the line read is `salir()` and only then
C21_Repl ==
    [][/\ (status = "prompt" /\ status' = "parsing") =>
             /\ repl'.scanned = Append(repl.scanned, repl'.line)
             /\ source' = Join(repl'.scanned)
       /\ (status = "done" /\ parser.errors # <<>>) =>
             /\ evaluation' = evaluation
             /\ repl'.output =
                   Append(repl.output, [printed |-> "errors", what |-> parser.errors])
             /\ status' = "prompt"
       /\ (status = "done" /\ parser.errors = <<>>) =>
             evaluation' = evaluate(ret, 1, NewEvaluation)
       /\ (status = "prompt" /\ repl'.reads # repl.reads) =>
             (status' = "exited" <=> repl'.line = salir)
       /\ status' \in {"prompt", "parsing", "done", "exited"}
      ]_vars

====
